---- MODULE Spec2Model ----
(***************************************************************************)
(* Verification model of the RLRacing repository: the procedural track     *)
(* generator (src/game/track_generator.py), the vehicle dynamics of Car    *)
(* (src/car.py), the training environment and its reward recorder          *)
(* (src/ai), and the menus, races and sessions of the Game (src/game,      *)
(* src/states, src/modes) and of the loop of src/main.py.  The races take  *)
(* whole pixels, the rewards thousandths.                                  *)
(*                                                                         *)
(* Numbers.  The source computes in binary floating point; the model       *)
(* computes in fixed point, every quantity an integer count of a unit:     *)
(*   track coordinates, car position   centi-pixels        (1 px = 100)   *)
(*   car velocity                      centi-pixels/second                *)
(*   angles                            milli-radians                      *)
(*   widths, dimensionless factors     thousandths          (1.0 = 1000)  *)
(*   cosines of turn angles            ten-thousandths                    *)
(*   time step dt                      milliseconds                       *)
(* Every product is divided back with RDiv (round to nearest).             *)
(***************************************************************************)
EXTENDS Integers, Sequences, FiniteSets, TLC

----------------------------------------------------------------------------
(* Fixed-point arithmetic *)

Max(a, b) == IF a >= b THEN a ELSE b

Min(a, b) == IF a <= b THEN a ELSE b

Abs(a) == IF a < 0 THEN -a ELSE a

\* a / b rounded to the nearest integer, b > 0
RDiv(a, b) == (2 * a + b) \div (2 * b)

\* one Newton step of the integer square root
Newton(n, x) == (x + n \div x) \div 2

\* the first guess of the iteration: a power of two near sqrt(n)
ISqrtGuess(n) ==
    IF n < 16 THEN 4
    ELSE IF n < 256 THEN 16
    ELSE IF n < 4096 THEN 64
    ELSE IF n < 65536 THEN 256
    ELSE IF n < 1048576 THEN 1024
    ELSE IF n < 16777216 THEN 4096
    ELSE IF n < 268435456 THEN 16384
    ELSE 46340

\* the last iterate x, taken down by one when it is above sqrt(n)
ISqrtFloor(n, x) == IF x * x > n THEN x - 1 ELSE x

\* floor(sqrt(n)), 0 <= n < 2^31
ISqrt(n) ==
    IF n = 0 THEN 0
    ELSE ISqrtFloor(n,
             Newton(n, Newton(n, Newton(n, Newton(n, Newton(n, ISqrtGuess(n)))))))

\* r = floor(sqrt(n)) taken to the nearest integer
SqrtRound(n, r) == IF n - r * r > r THEN r + 1 ELSE r

\* sqrt(n) rounded to the nearest integer
Sqrt(n) == SqrtRound(n, ISqrt(n))

\* cos(x) in thousandths for x in 0..1571 milli-radians (Taylor, 4 terms)
CosQ(x) ==
    LET x2 == RDiv(x * x, 1000)
        x4 == RDiv(x2 * x2, 1000)
    IN  1000 - RDiv(x2, 2) + RDiv(x4, 24) - RDiv(x4 * x2, 720000)
             + RDiv(x4 * x4, 40320000)

\* math.cos: angle in milli-radians, result in thousandths
Cos(a) ==
    LET r == a % 6283
    IN  IF r <= 1571 THEN CosQ(r)
        ELSE IF r <= 3142 THEN -CosQ(3142 - r)
        ELSE IF r <= 4712 THEN -CosQ(r - 3142)
        ELSE CosQ(6283 - r)

\* math.sin: angle in milli-radians, result in thousandths
Sin(a) == Cos(a - 1571)

\* atan(z / 1000) in milli-radians for z in 0..1000
AtanZ(z) == RDiv(z * (785 + RDiv(273 * (1000 - z), 1000)), 1000)

\* math.atan2(y, x) in milli-radians, in (-pi, pi]; atan2(0, 0) = 0
Atan2(y, x) ==
    LET ax == Abs(x)
        ay == Abs(y)
        a  == IF ax = 0 /\ ay = 0 THEN 0
              ELSE IF ax >= ay THEN AtanZ(RDiv(ay * 1000, ax))
              ELSE 1571 - AtanZ(RDiv(ax * 1000, ay))
        h  == IF x < 0 THEN 3142 - a ELSE a
    IN  IF y < 0 THEN -h ELSE h

\* math.acos(c) in milli-radians, c in ten-thousandths (-10000..10000)
Acos(c) == Atan2(Sqrt(100000000 - c * c), c)

----------------------------------------------------------------------------
(* The random source.  random.Random(seed) and the module-level generator  *)
(* of the random module are modelled as one linear congruential generator  *)
(* over 0..65536; what matters to the claims is which generator object a   *)
(* call draws from and how many draws it makes.                            *)

\* the absent seed (seed=None)
NoSeed == -1

\* one draw advances the generator
RngNext(s) == (75 * s + 74) % 65537

\* random.Random(seed): the state a seed puts a fresh generator in
RngSeed(seed) == (7919 * seed + 12345) % 65537

\* a * b modulo 65537 for a, b in 0..65536, kept within 32 bits
MulMod(a, b) == (((a * (b \div 256)) % 65537) * 256 + a * (b % 256)) % 65537

\* 75^k modulo 65537
RECURSIVE Pow75(_)
Pow75(k) ==
    IF k = 0 THEN 1
    ELSE IF k % 2 = 0 THEN MulMod(Pow75(k \div 2), Pow75(k \div 2))
    ELSE (75 * Pow75(k - 1)) % 65537

\* the state after k draws: RngNext applied k times, s -> 75 s + 74, is
\* s -> 75^k (s + 1) - 1
RngAt(s, k) == (MulMod(Pow75(k), (s + 1) % 65537) + 65536) % 65537

\* rng.uniform(lo, hi) read off generator state s, in the unit of lo and hi
Uniform(lo, hi, s) == lo + RDiv((hi - lo) * s, 65537)

----------------------------------------------------------------------------
(* Helper geometry of track_generator.py; a point is <<x, y>> *)

\* index (1-based) of the cyclic successor / predecessor in a loop of n
NextIdx(i, n) == (i % n) + 1

PrevIdx(i, n) == ((i + n - 2) % n) + 1

\* one edge of the ray cast: does the ray from pt to +x cross edge i
Crosses(pt, poly, i) ==
    LET x  == pt[1]
        y  == pt[2]
        x1 == poly[i][1]
        y1 == poly[i][2]
        x2 == poly[NextIdx(i, Len(poly))][1]
        y2 == poly[NextIdx(i, Len(poly))][2]
    IN  /\ (y1 > y) # (y2 > y)
        /\ IF y2 > y1
             THEN (x - x1) * (y2 - y1) < (x2 - x1) * (y - y1)
             ELSE (x - x1) * (y2 - y1) > (x2 - x1) * (y - y1)

\* _point_in_polygon: parity of the crossings
PointInPolygon(pt, poly) ==
    Cardinality({i \in 1..Len(poly) : Crosses(pt, poly, i)}) % 2 = 1

\* one pass of Chaikin corner cutting on a closed loop
ChaikinPass(pts) ==
    LET n == Len(pts)
    IN  [j \in 1..(2 * n) |->
            LET i  == (j + 1) \div 2
                p0 == pts[i]
                p1 == pts[NextIdx(i, n)]
            IN  IF j % 2 = 1
                  THEN <<RDiv(3 * p0[1] + p1[1], 4), RDiv(3 * p0[2] + p1[2], 4)>>
                  ELSE <<RDiv(p0[1] + 3 * p1[1], 4), RDiv(p0[2] + 3 * p1[2], 4)>>]

\* _chaikin_loop(pts, iters)
ChaikinLoop(pts, iters) ==
    IF iters = 2 THEN ChaikinPass(ChaikinPass(pts))
    ELSE IF iters = 3 THEN ChaikinPass(ChaikinPass(ChaikinPass(pts)))
    ELSE IF iters = 4 THEN ChaikinPass(ChaikinPass(ChaikinPass(ChaikinPass(pts))))
    ELSE IF iters = 1 THEN ChaikinPass(pts)
    ELSE pts

\* one coordinate of the uniform Catmull-Rom segment p1..p2 at t = k / seg
CatmullCoord(a0, a1, a2, a3, k, seg) ==
    RDiv(  2 * a1 * seg * seg * seg
         + (a2 - a0) * k * seg * seg
         + (2 * a0 - 5 * a1 + 4 * a2 - a3) * k * k * seg
         + (3 * a1 - a0 - 3 * a2 + a3) * k * k * k,
         2 * seg * seg * seg)

\* _catmull_rom_loop(controls, samples)
CatmullRomLoop(controls, samples) ==
    LET n   == Len(controls)
        seg == Max(6, samples \div n)
    IN  [j \in 1..(n * seg) |->
            LET i  == ((j - 1) \div seg) + 1
                k  == (j - 1) % seg
                p0 == controls[PrevIdx(i, n)]
                p1 == controls[i]
                p2 == controls[NextIdx(i, n)]
                p3 == controls[NextIdx(NextIdx(i, n), n)]
            IN  <<CatmullCoord(p0[1], p1[1], p2[1], p3[1], k, seg),
                  CatmullCoord(p0[2], p1[2], p2[2], p3[2], k, seg)>>]

\* "l or 1.0": a zero length is replaced by 1.0 px
Or1(l) == IF l = 0 THEN 100 ELSE l

\* (dx*dx + dy*dy) ** 0.5 or 1.0
LenOr1(dx, dy) == Or1(Sqrt(dx * dx + dy * dy))

\* cosine (ten-thousandths) of the turn between edge vectors v1 and v2,
\* clamped to [-1, 1]
TurnCos(v1, v2) ==
    LET l1 == LenOr1(v1[1], v1[2])
        l2 == LenOr1(v2[1], v2[2])
        d  == v1[1] * v2[1] + v1[2] * v2[2]
    IN  Max(-10000, Min(10000, RDiv(RDiv(d * 100, l1) * 100, l2)))

\* pinch factor (thousandths) for a turn angle theta (milli-radians) and an
\* effective width (thousandths of a pixel)
Pinch(theta, width) ==
    LET curv_norm    == RDiv(theta * 1000, 3142)
        width_scale  == Min(1000, RDiv(width, 60))
        pinch_amount == Min(450, RDiv(RDiv(curv_norm * 1200, 1000) * width_scale, 1000))
    IN  Max(400, 1000 - pinch_amount)

\* the left-hand normal (-ty, tx) of the tangent (tx0, ty0) of length L,
\* times hp = half * pinch (thousandths of a pixel): centi-pixels
ScaledNormal(tx0, ty0, L, hp) ==
    <<RDiv(-RDiv(ty0 * 1000, L) * hp, 10000), RDiv(RDiv(tx0 * 1000, L) * hp, 10000)>>

\* half * pinch at a point entered along v1 and left along v2
HalfPinched(v1, v2, width) ==
    RDiv(RDiv(width, 2) * Pinch(Acos(TurnCos(v1, v2)), width), 1000)

\* the offset vector n * half * pinch of a point p between p_prev and p_next
OffsetOf(p_prev, p, p_next, width) ==
    ScaledNormal(p_next[1] - p_prev[1], p_next[2] - p_prev[2],
                 LenOr1(p_next[1] - p_prev[1], p_next[2] - p_prev[2]),
                 HalfPinched(<<p[1] - p_prev[1], p[2] - p_prev[2]>>,
                             <<p_next[1] - p[1], p_next[2] - p[2]>>, width))

\* the offset vector of centerline point i
OffsetAt(center, width, i) ==
    OffsetOf(center[PrevIdx(i, Len(center))], center[i],
             center[NextIdx(i, Len(center))], width)

\* inner = p - off, outer = p + off
OffsetPair(center, off) ==
    [inner |-> [i \in 1..Len(off) |->
                   <<center[i][1] - off[i][1], center[i][2] - off[i][2]>>],
     outer |-> [i \in 1..Len(off) |->
                   <<center[i][1] + off[i][1], center[i][2] + off[i][2]>>]]

\* _offset_boundaries(center, width)
OffsetBoundaries(center, width) ==
    OffsetPair(center, [i \in 1..Len(center) |-> OffsetAt(center, width, i)])

\* _lerp(a, b, t), t in thousandths
Lerp(a, b, t) ==
    <<a[1] + RDiv((b[1] - a[1]) * t, 1000), a[2] + RDiv((b[2] - a[2]) * t, 1000)>>

\* variant: the loop stops one point short (range(n - 1))
RacingLineShort(center, inner, outer) ==
    [i \in 1..(Len(center) - 1) |-> Lerp(center[i], outer[i], 0)]

\* curv: the cross product of the edges v1, v2 over their lengths
\* (ten-thousandths)
Curvature(v1, v2) ==
    RDiv(RDiv((v1[1] * v2[2] - v1[2] * v2[1]) * 100, LenOr1(v1[1], v1[2])) * 100,
         LenOr1(v2[1], v2[2]))

\* the racing-line point of p1: toward the inner point when curv > 0, else
\* toward the outer point, by bias = min(0.6, abs(curv) * 8.0)
Biased(p1, inner_i, outer_i, curv) ==
    Lerp(p1, IF curv > 0 THEN inner_i ELSE outer_i,
         Min(600, RDiv(Abs(curv) * 8, 10)))

\* _racing_line(center, inner, outer)
RacingLine(center, inner, outer) ==
    [i \in 1..Len(center) |->
        Biased(center[i], inner[i], outer[i],
               Curvature(<<center[i][1] - center[PrevIdx(i, Len(center))][1],
                           center[i][2] - center[PrevIdx(i, Len(center))][2]>>,
                         <<center[NextIdx(i, Len(center))][1] - center[i][1],
                           center[NextIdx(i, Len(center))][2] - center[i][2]>>))]

\* variant: checkpoint i sits at (i + 1) * step
CheckpointsShifted(center, n_ck) ==
    LET len  == Len(center)
        step == len \div n_ck
    IN  [k \in 1..n_ck |->
            LET idx == (k * step) % len
                nxt == (idx + 1) % len
            IN  [position  |-> center[idx + 1],
                 direction |-> <<center[nxt + 1][1] - center[idx + 1][1],
                                 center[nxt + 1][2] - center[idx + 1][2]>>,
                 index     |-> k - 1,
                 passed    |-> FALSE]]

\* _checkpoints(center, n_ck)
Checkpoints(center, n_ck) ==
    LET len  == Len(center)
        step == len \div n_ck
    IN  [k \in 1..n_ck |->
            LET i   == k - 1
                idx == (i * step) % len
                nxt == (idx + 1) % len
            IN  [position  |-> center[idx + 1],
                 direction |-> <<center[nxt + 1][1] - center[idx + 1][1],
                                 center[nxt + 1][2] - center[idx + 1][2]>>,
                 index     |-> i,
                 passed    |-> FALSE]]

----------------------------------------------------------------------------
(* generate_track *)

\* the fixed enumeration of weather tags
WeatherTags == {"CLEAR", "RAIN", "SNOW"}

\* variant: the minimum is 3 control points
NCtrlMin3(complexity) == Max(3, complexity)

\* n_ctrl = max(6, complexity)
NCtrl(complexity) == Max(6, complexity)

\* chaikin_iters: 2, 3 at complexity >= 14, 4 at complexity >= 20
ChaikinIters(complexity) ==
    IF complexity >= 20 THEN 4 ELSE IF complexity >= 14 THEN 3 ELSE 2

\* does the call draw from its own random.Random(seed)
Seeded(seed) == seed # NoSeed

\* variant: "if seed" in place of "if seed is not None" (seed 0 is falsy)
RngStartTruthy(seed, amb) == IF seed # NoSeed /\ seed # 0 THEN RngSeed(seed) ELSE amb

\* the generator state the call starts drawing from
RngStart(seed, amb) == IF Seeded(seed) THEN RngSeed(seed) ELSE amb

\* the noisy ring of control points; control i takes draws 2i+1 and 2i+2
ControlRing(n_ctrl, s0) ==
    [j \in 1..n_ctrl |->
        LET i == j - 1
            a == RDiv(6283 * i, n_ctrl) + Uniform(-180, 180, RngAt(s0, 2 * i + 1))
            r == 26 * Uniform(800, 1200, RngAt(s0, 2 * i + 2))
        IN  <<60000 + RDiv(r * Cos(a), 1000), 40000 + RDiv(r * Sin(a), 1000)>>]

\* effective_width in thousandths of a pixel
EffectiveWidthLate(width, complexity) ==
    LET w0 == width * 1000
        w1 == IF complexity >= 14 THEN RDiv(w0 * 9, 10) ELSE w0
        w2 == IF complexity >= 18 THEN RDiv(w1 * 8, 10) ELSE w1
    IN  IF w2 >= 70000 THEN RDiv(w2 * 9, 10) ELSE w2

EffectiveWidth(width, complexity) ==
    LET w0 == width * 1000
        w1 == IF complexity >= 14 THEN RDiv(w0 * 9, 10) ELSE w0
        w2 == IF complexity >= 18 THEN RDiv(w1 * 8, 10) ELSE w1
    IN  IF width >= 70 THEN RDiv(w2 * 9, 10) ELSE w2

\* the sampled indices (0-based) of the orientation check
SampleIdx(len) == {i \in 0..(len - 1) : i % Max(1, len \div 12) = 0}

\* is some sampled point of inner outside the polygon outer
SomeSampleOutside(inner, outer) ==
    \E i \in SampleIdx(Len(inner)) : ~PointInPolygon(inner[i + 1], outer)

\* the sanity check after offsetting: swap inner and outer when a sampled
\* inner point is outside outer
Orient(b) ==
    IF Len(b.inner) > 0 /\ Len(b.outer) > 0 /\ SomeSampleOutside(b.inner, b.outer)
      THEN [inner |-> b.outer, outer |-> b.inner]
      ELSE b

\* variant: the tag is only checked to be non-empty
WeatherOkNonEmpty(weather) == weather # ""

\* the final check of the weather tag (assert)
WeatherOk(weather) == weather \in WeatherTags

\* steps 5-6 and the fields of the descriptor, from the centerline and the
\* boundaries b; after is the state the module-level generator is left in
GeometryOfBoundaries(center, b, eff, after) ==
    [centerline     |-> center,
     inner_boundary |-> b.inner,
     outer_boundary |-> b.outer,
     racing_line    |-> RacingLine(center, b.inner, b.outer),
     checkpoints    |-> Checkpoints(center, 8),
     start_pos      |-> center[1],
     start_angle    |-> Atan2(center[2][2] - center[1][2],
                              center[2][1] - center[1][1]),
     width          |-> eff,
     ambient        |-> after]

\* step 4 onward: the boundaries offset from the centerline and swapped
\* when inner is not inside outer
GeometryOfCenter(center, eff, after) ==
    GeometryOfBoundaries(center, Orient(OffsetBoundaries(center, eff)), eff, after)

\* steps 1-6 of generate_track, everything before the weather check: the
\* geometry, and the state the module-level generator is left in
Geometry(width, complexity, seed, amb) ==
    LET n_ctrl == NCtrl(complexity)
        s0     == RngStart(seed, amb)
    IN  GeometryOfCenter(
            CatmullRomLoop(ChaikinLoop(ControlRing(n_ctrl, s0), ChaikinIters(complexity)),
                           8 * n_ctrl),
            EffectiveWidth(width, complexity),
            IF Seeded(seed) THEN amb ELSE RngAt(s0, 2 * n_ctrl))

\* step 7 and the return: the assert on the weather tag, then the descriptor
Finish(g, seed, weather) ==
    IF WeatherOk(weather)
      THEN [status |-> "ok",
            track  |-> [centerline       |-> g.centerline,
                        inner_boundary   |-> g.inner_boundary,
                        outer_boundary   |-> g.outer_boundary,
                        racing_line      |-> g.racing_line,
                        checkpoints      |-> g.checkpoints,
                        start_pos        |-> g.start_pos,
                        start_angle      |-> g.start_angle,
                        width            |-> g.width,
                        seed             |-> seed,
                        intended_weather |-> weather]]
      ELSE [status |-> "AssertionError", track |-> << >>]

\* generate_track(width, complexity, seed, intended_weather) run with the
\* module-level generator in state amb
GenerateTrack(width, complexity, seed, weather, amb) ==
    Finish(Geometry(width, complexity, seed, amb), seed, weather)

----------------------------------------------------------------------------
(* Car (src/car.py).  Positions in centi-pixels, velocities in centi-pixels *)
(* per second, angles in milli-radians, throttle, steering and grip in      *)
(* thousandths, friction factors in ten-thousandths, dt in milliseconds.    *)

\* Car.__init__(x, y, angle, color, max_speed, acceleration) with the
\* default turning_speed = 2.5 and friction = 0.92
CarNew(x, y, angle, max_speed, acceleration) ==
    [x |-> x, y |-> y, angle |-> angle,
     velocity_x |-> 0, velocity_y |-> 0, angular_velocity |-> 0,
     max_speed |-> max_speed,
     acceleration_rate |-> acceleration,
     brake_rate |-> 2 * acceleration,
     turning_speed |-> 2500,
     base_friction |-> 9200,
     throttle |-> 0, steering |-> 0, handbrake |-> FALSE,
     on_track |-> TRUE,
     tire_squeal_intensity |-> 0,
     speed_for_audio |-> 0,
     engine_sound_pitch |-> 1000]

\* math.sqrt(velocity_x**2 + velocity_y**2)
Speed(c) == Sqrt(c.velocity_x * c.velocity_x + c.velocity_y * c.velocity_y)

\* current_grip: tire_grip, times off_track_grip_multiplier off the track
Grip(c) == IF c.on_track THEN 950 ELSE 380

\* a force (centi-px/s^2) along the heading, applied for dt: <<dvx, dvy>>
AlongHeading(angle, force, dt) ==
    <<RDiv(RDiv(Cos(angle) * force, 1000) * dt, 1000),
      RDiv(RDiv(Sin(angle) * force, 1000) * dt, 1000)>>

\* forward branch: throttle * acceleration_rate under traction control
ForwardForce(c) ==
    Min(RDiv(c.throttle * c.acceleration_rate, 1000),
        RDiv(RDiv(Grip(c) * 800, 1000) * c.acceleration_rate, 1000))

\* the else branch of the throttle test: accel_x = accel_y = 0, not applied
IdleVelocity(c, dt) == <<c.velocity_x, c.velocity_y>>

\* 1. acceleration and braking: the velocity after the block
Accelerate(c, cs, dt) ==
    IF Abs(c.angular_velocity) >= 5000 THEN <<c.velocity_x, c.velocity_y>>
    ELSE IF c.throttle > 0 THEN
        LET a == AlongHeading(c.angle, ForwardForce(c), dt)
        IN  <<c.velocity_x + a[1], c.velocity_y + a[2]>>
    ELSE IF c.throttle < 0 THEN
        IF cs > 10 THEN
            LET brake_force == RDiv(-c.throttle * c.brake_rate, 1000)
                brake_x == -RDiv(RDiv(c.velocity_x * brake_force, cs) * dt, 1000)
                brake_y == -RDiv(RDiv(c.velocity_y * brake_force, cs) * dt, 1000)
                new_vx  == c.velocity_x + brake_x
                new_vy  == c.velocity_y + brake_y
            IN  IF new_vx * c.velocity_x < 0 \/ new_vy * c.velocity_y < 0
                  THEN <<0, 0>>
                  ELSE <<new_vx, new_vy>>
        ELSE
            LET a == AlongHeading(c.angle,
                                  RDiv(RDiv(c.throttle * c.acceleration_rate, 1000), 2), dt)
            IN  IF cs < 10
                  THEN <<c.velocity_x + a[1], c.velocity_y + a[2]>>
                  ELSE <<c.velocity_x, c.velocity_y>>
    ELSE IdleVelocity(c, dt)

\* steering effectiveness (thousandths) at speed cs
SteeringEffectiveness(cs) ==
    IF cs < 1000 THEN 200
    ELSE IF cs < 8000 THEN 200 + RDiv(800 * (cs - 1000), 7000)
    ELSE Max(300, RDiv(8000 * 1000, cs))

\* the two while loops that bring the slip angle into [-pi, pi]
NormalizeAngle(a) ==
    IF a > 3142 THEN a - 6283 * ((a - 3142 + 6282) \div 6283)
    ELSE IF a < -3142 THEN a + 6283 * ((-3142 - a + 6282) \div 6283)
    ELSE a

\* turn_rate (milli-radians per second): steering * turning_speed *
\* steering_effectiveness * current_grip, times 1.5 under the handbrake
TurnRate(c1, cs) ==
    LET rate0 == RDiv(RDiv(RDiv(c1.steering * c1.turning_speed, 1000)
                           * SteeringEffectiveness(cs), 1000) * Grip(c1), 1000)
    IN  IF c1.handbrake THEN RDiv(rate0 * 15, 10) ELSE rate0

\* the lateral force pulls the velocity toward the heading; slip is the
\* normalised slip angle, lateral0 the force before the sliding reduction
Aligned(c2, cs, dt, lateral0, slip) ==
    LET sliding     == Abs(slip) > 150
        grip_factor == Max(300, 1000 - RDiv(Abs(slip) * 1000, 3142))
        lateral     == IF sliding THEN RDiv(lateral0 * grip_factor, 1000)
                       ELSE lateral0
        alignment   == RDiv(lateral * dt, 1000)
    IN  [c2 EXCEPT
           !.tire_squeal_intensity = IF sliding THEN Min(1000, 2 * Abs(slip))
                                     ELSE RDiv(Abs(slip), 2),
           !.velocity_x = @ + RDiv((RDiv(Cos(c2.angle) * cs, 1000) - @) * alignment, 1000),
           !.velocity_y = @ + RDiv((RDiv(Sin(c2.angle) * cs, 1000) - @) * alignment, 1000)]

\* lateral forces from turning, on the car c2 already rotated; grip is
\* current_grip, reduced under the handbrake
Align(c2, grip, cs, dt) ==
    IF Abs(c2.angular_velocity) > 10 /\ cs > 100
      THEN Aligned(c2, cs, dt,
                   Min(RDiv(cs * Abs(c2.angular_velocity), 2000),
                       RDiv(RDiv(grip * 800, 1000) * cs, 1000)),
                   NormalizeAngle(c2.angle - Atan2(c2.velocity_y, c2.velocity_x)))
      ELSE c2

\* angular_velocity = turn_rate; angle += angular_velocity * dt
Turn(c1, cs, dt, turn_rate) ==
    Align([c1 EXCEPT !.angular_velocity = turn_rate,
                     !.angle = @ + RDiv(turn_rate * dt, 1000)],
          IF c1.handbrake THEN RDiv(Grip(c1) * 6, 10) ELSE Grip(c1), cs, dt)

\* 2. steering physics, on the car c1 left by block 1
Steer(c1, cs, dt) ==
    IF cs > 500 /\ Abs(c1.steering) > 10
      THEN Turn(c1, cs, dt, TurnRate(c1, cs))
      ELSE [c1 EXCEPT !.angular_velocity = 0, !.tire_squeal_intensity = 0]

\* ln(f) for a factor f in (0, 1], both in ten-thousandths
Ln(f) ==
    LET u  == 10000 - f
        u2 == RDiv(u * u, 10000)
        u3 == RDiv(u2 * u, 10000)
        u4 == RDiv(u3 * u, 10000)
        u5 == RDiv(u4 * u, 10000)
        u6 == RDiv(u5 * u, 10000)
        u7 == RDiv(u6 * u, 10000)
        u8 == RDiv(u7 * u, 10000)
    IN  -(u + RDiv(u2, 2) + RDiv(u3, 3) + RDiv(u4, 4) + RDiv(u5, 5)
            + RDiv(u6, 6) + RDiv(u7, 7) + RDiv(u8, 8))

\* exp(e / 10000) in ten-thousandths, e <= 0
Exp(e) == 10000 + e + RDiv(e * e, 20000) + RDiv(e * e * e, 600000000)

\* math.pow(f, dt): f in ten-thousandths, dt in milliseconds
Pow(f, dt) == Exp(RDiv(Ln(f) * dt, 1000))

\* friction_this_frame (ten-thousandths)
FrictionThisFrame(c, cs, dt) ==
    LET friction_factor == IF c.on_track THEN c.base_friction
                           ELSE RDiv(c.base_friction * 7, 10)
    IN  IF cs < 1000 THEN 10000 - 50 * dt ELSE Pow(friction_factor, dt)

\* air resistance, then the velocity times friction_this_frame f
Slowed(c2, cs, dt, f) ==
    LET drag_force == RDiv(cs * cs, 100000)
        vx1 == IF cs > 0
                 THEN c2.velocity_x - RDiv(RDiv(c2.velocity_x * drag_force, cs) * dt, 1000)
                 ELSE c2.velocity_x
        vy1 == IF cs > 0
                 THEN c2.velocity_y - RDiv(RDiv(c2.velocity_y * drag_force, cs) * dt, 1000)
                 ELSE c2.velocity_y
    IN  [c2 EXCEPT !.velocity_x = RDiv(vx1 * f, 10000),
                   !.velocity_y = RDiv(vy1 * f, 10000)]

\* variant: a very slow idle car is left creeping along its heading at
\* half a pixel per second instead of being stopped
DragFrictionCreep(c2, cs, dt) ==
    IF cs < 100 /\ c2.throttle = 0
      THEN [c2 EXCEPT !.velocity_x = RDiv(Cos(c2.angle) * 50, 1000),
                      !.velocity_y = RDiv(Sin(c2.angle) * 50, 1000)]
      ELSE Slowed(c2, cs, dt, FrictionThisFrame(c2, cs, dt))

\* 3. drag and friction, and the full stop of a very slow idle car
DragFriction(c2, cs, dt) ==
    IF cs < 100 /\ c2.throttle = 0
      THEN [c2 EXCEPT !.velocity_x = 0, !.velocity_y = 0]
      ELSE Slowed(c2, cs, dt, FrictionThisFrame(c2, cs, dt))

\* 4. speed limiting, on the speed cs measured when update began
SpeedLimit(c3, cs) ==
    IF cs > c3.max_speed
      THEN [c3 EXCEPT !.velocity_x = RDiv(@ * c3.max_speed, cs),
                      !.velocity_y = RDiv(@ * c3.max_speed, cs)]
      ELSE c3

\* 5. update position
Integrate(c4, dt) ==
    [c4 EXCEPT !.x = @ + RDiv(c4.velocity_x * dt, 1000),
               !.y = @ + RDiv(c4.velocity_y * dt, 1000)]

\* distance of a point from the centre (600, 400) of the track bounds
CentreDist(x, y) ==
    Sqrt((x - 60000) * (x - 60000) + (y - 40000) * (y - 40000))

\* _point_in_track(point, track_data): 180 < distance < 320; track_data
\* is not read
PointInTrack(x, y, track_data) ==
    CentreDist(x, y) > 18000 /\ CentreDist(x, y) < 32000

\* the boundary point and the normal along the unit vector (nx, ny) from
\* the centre, for a point at distance dist > 0
BoundaryAlong(nx, ny, dist) ==
    IF dist < 25000
      THEN [found |-> TRUE,
            point |-> <<60000 + 18 * nx, 40000 + 18 * ny>>,
            normal |-> <<nx, ny>>]
      ELSE [found |-> TRUE,
            point |-> <<60000 + 32 * nx, 40000 + 32 * ny>>,
            normal |-> <<-nx, -ny>>]

\* the closest boundary of a point at distance dist from the centre
BoundaryAt(x, y, dist) ==
    IF dist > 0
      THEN BoundaryAlong(RDiv((x - 60000) * 1000, dist),
                         RDiv((y - 40000) * 1000, dist), dist)
      ELSE [found |-> FALSE, point |-> <<0, 0>>, normal |-> <<0, 0>>]

\* _find_closest_boundary(point, track_data): [found, point, normal],
\* normal in thousandths; track_data is not read
FindClosestBoundary(x, y, track_data) == BoundaryAt(x, y, CentreDist(x, y))

\* the collision response of a car c6 off the track, b its closest boundary
WallResponse(c6, b) ==
    LET penetration == Sqrt((c6.x - b.point[1]) * (c6.x - b.point[1])
                            + (c6.y - b.point[2]) * (c6.y - b.point[2]))
        dot == c6.velocity_x * b.normal[1] + c6.velocity_y * b.normal[2]
        vel_dot_normal == RDiv(dot, 1000)
        push == Max(0, 1500 - penetration)
    IN  IF ~c6.on_track /\ b.found /\ penetration < 1500 /\ dot < 0
          THEN [c6 EXCEPT
                  !.velocity_x = @ - RDiv(RDiv(vel_dot_normal * b.normal[1], 1000) * 12, 10),
                  !.velocity_y = @ - RDiv(RDiv(vel_dot_normal * b.normal[2], 1000) * 12, 10),
                  !.x = @ + RDiv(b.normal[1] * push, 1000),
                  !.y = @ + RDiv(b.normal[2] * push, 1000)]
          ELSE c6

\* 6. _check_track_collision(track_data)
CheckTrackCollision(c5, track_data) ==
    WallResponse([c5 EXCEPT !.on_track = PointInTrack(c5.x, c5.y, track_data)],
                 FindClosestBoundary(c5.x, c5.y, track_data))

\* 7. audio simulation values; the division by max_speed raises when
\* max_speed is 0 and leaves the pitch as it was
Audio(c6, cs) ==
    [c6 EXCEPT !.speed_for_audio = cs,
               !.engine_sound_pitch =
                   IF c6.max_speed = 0 THEN @
                   ELSE 800 + RDiv(cs * 600, c6.max_speed)]

\* the car with its velocity replaced
WithVelocity(c, v) == [c EXCEPT !.velocity_x = v[1], !.velocity_y = v[2]]

\* blocks 1-7 of update, cs the speed measured when update began
UpdateAt(c, cs, dt, track_data) ==
    Audio(CheckTrackCollision(
              Integrate(SpeedLimit(DragFriction(Steer(WithVelocity(c, Accelerate(c, cs, dt)),
                                                      cs, dt),
                                                cs, dt),
                                   cs),
                        dt),
              track_data),
          cs)

\* Car.update(dt, track_data): the fields of the car when the call ends
CarUpdate(c, dt, track_data) == UpdateAt(c, Speed(c), dt, track_data)

\* update looking its boundary lists up by key
UpdateRaisesKeyed(c, dt, track_data) ==
    IF {"outer_boundary", "inner_boundary"} \subseteq DOMAIN track_data
      THEN "none" ELSE "KeyError"

\* the exception a call of update ends with, "none" when it returns: no
\* statement subscripts, iterates or measures track_data, the divisions
\* by current_speed are guarded (lines 113, 216), and the one by max_speed
\* (line 258) is not
UpdateRaises(c, dt, track_data) ==
    IF c.max_speed = 0 THEN "ZeroDivisionError" ELSE "none"

\* update marking the first checkpoint of the track data as passed
UpdateCallMarking(c, dt, track_data) ==
    [car    |-> CarUpdate(c, dt, track_data),
     track  |-> [track_data EXCEPT !.checkpoints[1].passed = TRUE],
     raised |-> UpdateRaises(c, dt, track_data)]

\* what a call c.update(dt, track_data) leaves behind: the fields of the
\* car, the track data object it was handed, and the exception
UpdateCall(c, dt, track_data) ==
    [car    |-> CarUpdate(c, dt, track_data),
     track  |-> track_data,
     raised |-> UpdateRaises(c, dt, track_data)]

\* set_input storing its arguments as they come
CarSetInputRaw(c, throttle, steering, handbrake) ==
    [c EXCEPT !.throttle = throttle, !.steering = steering,
              !.handbrake = handbrake]

\* Car.set_input(throttle, steering, handbrake)
CarSetInput(c, throttle, steering, handbrake) ==
    [c EXCEPT !.throttle = Max(-1000, Min(1000, throttle)),
              !.steering = Max(-1000, Min(1000, steering)),
              !.handbrake = handbrake]

\* reset repositioning the car and keeping its velocity
CarResetMoving(c, x, y, angle) ==
    [c EXCEPT !.x = x, !.y = y, !.angle = angle,
              !.angular_velocity = 0,
              !.throttle = 0, !.steering = 0, !.handbrake = FALSE]

\* Car.reset(x, y, angle)
CarReset(c, x, y, angle) ==
    [c EXCEPT !.x = x, !.y = y, !.angle = angle,
              !.velocity_x = 0, !.velocity_y = 0, !.angular_velocity = 0,
              !.throttle = 0, !.steering = 0, !.handbrake = FALSE]

----------------------------------------------------------------------------
(* State of the generator runs *)

VARIABLES
    ambient,    \* state of the module-level generator of the random module
    call,       \* the last generate_track call: arguments and outcome
    memo,       \* the first seeded call that returned, kept for comparison
    nCalls,     \* number of generate_track calls so far (counted in SpecDet)
    nUnseeded   \* number of calls that drew from the module-level generator

genVars == <<ambient, call, memo, nCalls, nUnseeded>>

\* number of calls explored in SpecDet
MaxCalls == 3

\* number of unseeded calls explored
MaxUnseeded == 1

\* arguments the calls are drawn from
WidthSet == {50, 80}

ComplexitySet == {-1, 0, 6}

SeedSet == {NoSeed, 0, 1}

WeatherSet == {"CLEAR", "RAIN", "SNOW", "FOG"}

\* the narrower arguments of SpecDet
DetComplexitySet == {10}

DetWeatherSet == {"CLEAR", "FOG"}

\* the state the module-level generator is in when the program starts
AmbientSet == {1}

NoCall == [status |-> "none"]

InitGen ==
    /\ ambient \in AmbientSet
    /\ call = NoCall
    /\ memo = NoCall
    /\ nCalls = 0
    /\ nUnseeded = 0

\* the record kept of a call
CallRec(out, width, complexity, seed, weather, amb) ==
    [status |-> out.status, track |-> out.track,
     width |-> width, complexity |-> complexity, seed |-> seed,
     weather |-> weather, before |-> amb]

\* the call returns or raises: g is the geometry it computed
Outcome(g, width, complexity, seed, weathers) ==
    /\ ambient' = g.ambient
    /\ \E t \in weathers :
          call' = CallRec(Finish(g, seed, t), width, complexity, seed, t, ambient)

\* one call generate_track(width, complexity, seed, t) with t in weathers
Generate(width, complexity, seed, weathers) ==
    /\ IF Seeded(seed) THEN TRUE ELSE nUnseeded < MaxUnseeded
    /\ Outcome(Geometry(width, complexity, seed, ambient),
               width, complexity, seed, weathers)
    /\ nUnseeded' = IF Seeded(seed) THEN nUnseeded ELSE nUnseeded + 1

\* Spec: calls in any order, any arguments
GenerateAny ==
    /\ \E w \in WidthSet, c \in ComplexitySet, s \in SeedSet :
          Generate(w, c, s, WeatherSet)
    /\ UNCHANGED <<memo, nCalls>>

\* SpecDet: the calls are counted and the first seeded call that returned
\* is remembered
GenerateCounted ==
    /\ nCalls < MaxCalls
    /\ \E w \in WidthSet, c \in DetComplexitySet, s \in SeedSet :
          Generate(w, c, s, DetWeatherSet)
    /\ nCalls' = nCalls + 1
    /\ memo' = IF memo.status = "none" /\ call'.status = "ok" /\ Seeded(call'.seed)
                 THEN call' ELSE memo

\* the arguments of SpecDense: the highest complexity and the extreme
\* widths of the settings menu
DenseComplexitySet == {24}

DenseWidthSet == {30, 80}

DenseSeedSet == 48..60

\* SpecDense: the first call, for a track of the highest complexity
GenerateDense ==
    /\ call = NoCall
    /\ \E w \in DenseWidthSet, c \in DenseComplexitySet, s \in DenseSeedSet :
          Generate(w, c, s, WeatherSet)
    /\ UNCHANGED <<memo, nCalls>>

\* the arguments of SpecWidth: complexities and widths on both sides of the
\* thresholds 14, 18 and 70
ShrinkComplexitySet == {6, 14, 18}

ShrinkWidthSet == {50, 70}

ShrinkSeedSet == 0..4

\* SpecWidth: the first call, with arguments around the width thresholds
GenerateShrunk ==
    /\ call = NoCall
    /\ \E w \in ShrinkWidthSet, c \in ShrinkComplexitySet, s \in ShrinkSeedSet :
          Generate(w, c, s, WeatherSet)
    /\ UNCHANGED <<memo, nCalls>>

----------------------------------------------------------------------------
(* State of one call of _offset_boundaries on a given centerline *)

VARIABLE
    ob          \* the centerline and width passed, and the boundaries returned

\* centerlines: closed loops of 2 or 3 grid points, repeated points included
GridPoints == {<<60000, 40000>>, <<61000, 40000>>, <<60000, 41000>>}

CenterSet == {<<p, q>> : p \in GridPoints, q \in GridPoints}
                \cup {<<p, q, r>> : p \in GridPoints, q \in GridPoints, r \in GridPoints}

\* widths in pixels
OffsetWidthSet == {30, 50, 80}

NoOffsets == [status |-> "none"]

InitOffset ==
    ob \in [status : {"given"}, center : CenterSet, width : OffsetWidthSet]

\* inner, outer = _offset_boundaries(center, width)
ApplyOffset ==
    /\ ob.status = "given"
    /\ ob' = [status |-> "returned", center |-> ob.center, width |-> ob.width,
              inner |-> OffsetBoundaries(ob.center, 1000 * ob.width).inner,
              outer |-> OffsetBoundaries(ob.center, 1000 * ob.width).outer]

----------------------------------------------------------------------------
(* State of one car *)

VARIABLES
    car,        \* the fields of the Car object
    prev,       \* the fields before the last update or reset
    op,         \* the last operation on the car
    spawn,      \* the pose <<x, y, angle>> the car was last placed at
    track,      \* the track data handed to update
    raised,     \* the exception the last operation ended with
    nUpdates,   \* number of update calls so far
    nInputs,    \* number of set_input calls so far
    nResets,    \* number of reset calls so far
    rival,      \* the fields of a second Car updated on the same track data
    nRival      \* number of update calls of the second car so far

\* the number of frames of the race loop so far, modulo 2
VARIABLE frame

carVars == <<car, prev, op, spawn, track, raised, nUpdates, nInputs, nResets,
             rival, nRival>>

\* number of update calls explored
MaxUpdates == 3

\* number of set_input calls explored
MaxInputs == 2

\* number of reset calls explored
MaxResets == 1

\* a track descriptor as update receives it, cut down to the lists a car
\* could read: octagons of radius 320 and 180 around (600, 400) and one
\* checkpoint
RingTrack ==
    [outer_boundary |-> <<<<92000, 40000>>, <<82627, 62627>>,
                          <<60000, 72000>>, <<37373, 62627>>,
                          <<28000, 40000>>, <<37373, 17373>>,
                          <<60000, 8000>>,  <<82627, 17373>>>>,
     inner_boundary |-> <<<<78000, 40000>>, <<72728, 52728>>,
                          <<60000, 58000>>, <<47272, 52728>>,
                          <<42000, 40000>>, <<47272, 27272>>,
                          <<60000, 22000>>, <<72728, 27272>>>>,
     checkpoints    |-> <<[index |-> 0, passed |-> FALSE]>>]

\* a dictionary without one of its keys
WithoutKey(t, k) == [f \in DOMAIN t \ {k} |-> t[f]]

\* track data of any shape: whole, lacking the outer list, lacking the
\* inner list, lacking both, and holding empty lists
TrackSet ==
    {RingTrack,
     WithoutKey(RingTrack, "outer_boundary"),
     WithoutKey(RingTrack, "inner_boundary"),
     WithoutKey(WithoutKey(RingTrack, "outer_boundary"), "inner_boundary"),
     [RingTrack EXCEPT !.outer_boundary = <<>>, !.inner_boundary = <<>>]}

\* where cars are put on such tracks: on the band, 5 px inside its outer
\* bound, and 5 px beyond it
TrackSpawnSet == {<<85000, 40000>>, <<91500, 40000>>, <<92500, 40000>>}

\* <<max_speed, acceleration>>: the defaults, and a car of acceleration 2000
TrackTuningSet == {<<20000, 1500>>, <<20000, 200000>>}

\* where cars are constructed: on the asphalt band, just inside its outer
\* bound, and just outside it
SpawnSet == {<<85000, 40000>>, <<91500, 40000>>, <<92500, 40000>>}

\* headings: away from the centre, and toward it
AngleSet == {0, 3142}

\* <<max_speed, acceleration>>: the defaults (200, 15) and a slow-topped,
\* quick car (20, 300)
TuningSet == {<<20000, 1500>>, <<2000, 30000>>}

\* raw arguments of set_input, in thousandths
ThrottleSet == {-1500, 0, 1000}

SteeringSet == {-1000, 0, 1500}

\* frame times in milliseconds: 60 and 15 frames per second
DtSet == {17, 67}

\* where reset puts the car: on the asphalt band, and beyond its outer bound
ResetSet == {<<85000, 40000>>, <<92500, 40000>>}

\* raw arguments <<throttle, steering, handbrake>> of set_input: both out
\* of range above, both out of range below, and the release of all three
LifeInputSet == {<<1500, 1500, TRUE>>, <<-1500, -1500, FALSE>>,
                 <<0, 0, FALSE>>}

NoCar == [status |-> "none"]

NoTrack == [status |-> "none"]

\* a car constructed at one of poses x tunings, to be updated on track t
Construct(poses, angles, tunings, t) ==
    /\ \E p \in poses, a \in angles, tu \in tunings :
          /\ car = CarNew(p[1], p[2], a, tu[1], tu[2])
          /\ spawn = <<p[1], p[2], a>>
    /\ track = t
    /\ prev = NoCar
    /\ op = "new"
    /\ raised = "none"
    /\ nUpdates = 0
    /\ nInputs = 0
    /\ nResets = 0
    /\ rival = NoCar
    /\ nRival = 0
    /\ frame = 0

InitCar == Construct(SpawnSet, AngleSet, TuningSet, RingTrack)

\* car.set_input(throttle, steering, handbrake)
SetInput(throttle, steering, handbrake) ==
    /\ nInputs < MaxInputs
    /\ nUpdates < MaxUpdates
    /\ car' = CarSetInput(car, throttle, steering, handbrake)
    /\ op' = "set_input"
    /\ raised' = "none"
    /\ nInputs' = nInputs + 1
    /\ UNCHANGED <<prev, spawn, track, nUpdates, nResets, rival, nRival>>

\* car.update(dt, track)
Update(dt) ==
    /\ nUpdates < MaxUpdates
    /\ car' = UpdateCall(car, dt, track).car
    /\ track' = UpdateCall(car, dt, track).track
    /\ raised' = UpdateCall(car, dt, track).raised
    /\ prev' = car
    /\ op' = "update"
    /\ nUpdates' = nUpdates + 1
    /\ UNCHANGED <<spawn, nInputs, nResets, rival, nRival>>

\* car.reset(x, y, angle)
Reset(x, y, angle) ==
    /\ nResets < MaxResets
    /\ nUpdates < MaxUpdates
    /\ car' = CarReset(car, x, y, angle)
    /\ spawn' = <<x, y, angle>>
    /\ prev' = car
    /\ op' = "reset"
    /\ raised' = "none"
    /\ nResets' = nResets + 1
    /\ UNCHANGED <<track, nUpdates, nInputs, rival, nRival>>

\* the two cars of a race (main.py, player_car and ai_car) constructed on
\* one track, the second 40 px behind the first
ConstructBoth(poses, angles, tunings, t) ==
    /\ \E p \in poses, a \in angles, tu \in tunings :
          /\ car = CarNew(p[1], p[2], a, tu[1], tu[2])
          /\ rival = CarNew(p[1] - 4000, p[2], a, tu[1], tu[2])
          /\ spawn = <<p[1], p[2], a>>
    /\ track = t
    /\ prev = NoCar
    /\ op = "new"
    /\ raised = "none"
    /\ nUpdates = 0
    /\ nInputs = 0
    /\ nResets = 0
    /\ nRival = 0
    /\ frame = 0

\* ai_car.set_input(throttle, steering, handbrake)
RivalSetInput(throttle, steering, handbrake) ==
    /\ nInputs < MaxInputs
    /\ nRival < MaxUpdates
    /\ rival' = CarSetInput(rival, throttle, steering, handbrake)
    /\ op' = "rival_set_input"
    /\ raised' = "none"
    /\ nInputs' = nInputs + 1
    /\ UNCHANGED <<car, prev, spawn, track, nUpdates, nResets, nRival>>

\* ai_car.update(dt, track), on the track data the first car is updated on
RivalUpdate(dt) ==
    /\ nRival < MaxUpdates
    /\ rival' = UpdateCall(rival, dt, track).car
    /\ track' = UpdateCall(rival, dt, track).track
    /\ raised' = UpdateCall(rival, dt, track).raised
    /\ op' = "rival_update"
    /\ nRival' = nRival + 1
    /\ UNCHANGED <<car, prev, spawn, nUpdates, nInputs, nResets>>

\* one frame of a race for the player car (main.py): set_input with the
\* throttle the keys give, no steering, then update
Frame(throttle, dt) ==
    /\ car' = UpdateCall(CarSetInput(car, throttle, 0, FALSE), dt, track).car
    /\ prev' = CarSetInput(car, throttle, 0, FALSE)
    /\ op' = IF throttle < 0 THEN "brake" ELSE "drive"
    /\ raised' = UpdateCall(CarSetInput(car, throttle, 0, FALSE), dt, track).raised
    /\ frame' = 1 - frame
    /\ UNCHANGED <<spawn, track, nInputs, nResets, rival, nRival>>

\* a frame with the accelerator held, before any frame with the brake
DriveFrame(dt) ==
    /\ nUpdates < MaxUpdates
    /\ op # "brake"
    /\ nUpdates' = nUpdates + 1
    /\ Frame(1000, dt)

\* a frame with the brake held
BrakeFrame(dt) ==
    /\ nUpdates' = nUpdates
    /\ Frame(-1000, dt)

----------------------------------------------------------------------------
(* RacingEnv (src/ai/env_wrapper.py) and HumanRewardRecorder               *)
(* (src/ai/reward_recorder.py)                                             *)
(*                                                                         *)
(* Positions and distances are whole pixels, rewards thousandths.  The car *)
(* of the environment is game.car.Car; where an update leaves the car and  *)
(* the speed it then reports are inputs of the step.                       *)

VARIABLES
    env,        \* the RacingEnv object
    rec,        \* the HumanRewardRecorder object
    out         \* what the last step returned and what the recorder added

envVars == <<env, rec, out>>

NoEnv == [status |-> "none"]

NoRecorder == [status |-> "none"]

NoOut == [status |-> "none"]

\* a track as generate_track returns it, cut down to what the environment
\* reads: four checkpoints on a loop of eight centerline points
EnvTrack ==
    [checkpoints |->
         << [position |-> <<500, 300>>, index |-> 0, passed |-> FALSE],
            [position |-> <<700, 300>>, index |-> 1, passed |-> FALSE],
            [position |-> <<700, 500>>, index |-> 2, passed |-> FALSE],
            [position |-> <<500, 500>>, index |-> 3, passed |-> FALSE] >>,
     centerline |->
         << <<500, 300>>, <<600, 300>>, <<700, 300>>, <<700, 400>>,
            <<700, 500>>, <<600, 500>>, <<500, 500>>, <<500, 400>> >>,
     width |-> 50,
     start_pos |-> <<500, 300>>]

\* where an update can leave the car: the start, the grass beside the
\* first straight, beside checkpoint 1, off the track near the corner of
\* the window
EnvPlaceSet == { <<500, 300>>, <<600, 322>>, <<690, 310>>, <<20, 20>> }

\* what get_speed_kmh reports after an update
EnvSpeedSet == {0, 36}

\* the moves of one update: where the car is and how fast
EnvMoveSet == EnvPlaceSet \X EnvSpeedSet

ActionRepeatSet == {1, 2}

\* max_episode_seconds in milliseconds
MaxEpisodeMsSet == {100}

\* steps of one episode the model follows
MaxEnvSteps == 3

Hypot(dx, dy) == Sqrt(dx * dx + dy * dy)

\* the point a checkpoint dict is read as by RacingEnv._dist_to_checkpoint
EnvCheckpointXY(cp) ==
    IF "pos" \in DOMAIN cp THEN cp.pos
    ELSE IF "x" \in DOMAIN cp /\ "y" \in DOMAIN cp THEN <<cp.x, cp.y>>
    ELSE IF "center" \in DOMAIN cp THEN cp.center
    ELSE <<0, 0>>

\* RacingEnv._dist_to_checkpoint
EnvDistToCheckpoint(e, idx) ==
    LET cps == e.track.checkpoints
        c == EnvCheckpointXY(cps[(IF idx >= Len(cps) THEN 0 ELSE idx) + 1])
    IN  Hypot(e.car[1] - c[1], e.car[2] - c[2])

\* the least of the distances from a point to the points of a centerline
RECURSIVE MinDist(_, _, _)
MinDist(p, line, i) ==
    IF i = Len(line) THEN Hypot(p[1] - line[i][1], p[2] - line[i][2])
    ELSE Min(Hypot(p[1] - line[i][1], p[2] - line[i][2]),
             MinDist(p, line, i + 1))

\* _dist_to_centerline of both classes
DistToCenterline(trk, p) == MinDist(p, trk.centerline, 1)

\* the distance from the car to the position generate_track gave
\* checkpoint idx
TrueDistToCheckpoint(e, idx) ==
    LET c == e.track.checkpoints[(idx % Len(e.track.checkpoints)) + 1].position
    IN  Hypot(e.car[1] - c[1], e.car[2] - c[2])

\* RacingEnv.__init__
EnvInit(action_repeat, max_episode_ms, trk) ==
    [status |-> "new", action_repeat |-> action_repeat,
     max_episode_steps |-> (max_episode_ms * 30) \div 1000,
     fixed_track |-> trk, track |-> trk, car |-> <<0, 0>>,
     step_count |-> 0, next_checkpoint_idx |-> 0, lap_count |-> 0,
     prev_distance_to_checkpoint |-> 0]

\* RacingEnv.reset
EnvReset(e) ==
    LET placed == [e EXCEPT !.status = "ready", !.track = e.fixed_track,
                            !.car = e.fixed_track.start_pos,
                            !.step_count = 0, !.next_checkpoint_idx = 1,
                            !.lap_count = 0]
    IN  [placed EXCEPT !.prev_distance_to_checkpoint =
                           EnvDistToCheckpoint(placed, 1)]

\* the checkpoint part of one repeat of RacingEnv.step
EnvCheckpointPart(e, dist_to_cp) ==
    IF dist_to_cp < 40
    THEN LET nxt == (e.next_checkpoint_idx + 1) % Len(e.track.checkpoints)
             adv == [e EXCEPT !.next_checkpoint_idx = nxt]
         IN  [env |-> [adv EXCEPT
                          !.prev_distance_to_checkpoint =
                              EnvDistToCheckpoint(adv, nxt),
                          !.lap_count = IF nxt = 0 THEN @ + 1 ELSE @],
              reward |-> 2000 + (IF nxt = 0 THEN 5000 ELSE 0)]
    ELSE [env |-> [e EXCEPT !.prev_distance_to_checkpoint = dist_to_cp],
          reward |-> 0]

\* the penalties of one repeat of RacingEnv.step
EnvPenalty(e) ==
    LET d == DistToCenterline(e.track, e.car)
    IN  IF 2 * d > e.track.width THEN [reward |-> -5000, terminated |-> TRUE]
        ELSE IF 5 * d > 2 * e.track.width
             THEN [reward |-> -100, terminated |-> FALSE]
             ELSE [reward |-> 0, terminated |-> FALSE]

\* one repeat of the loop of RacingEnv.step: the update leaves the car at
\* move[1] with speed move[2]
EnvRepeat(e, move) ==
    LET moved == [e EXCEPT !.car = move[1]]
        dist_to_cp == EnvDistToCheckpoint(moved, moved.next_checkpoint_idx)
        cp == EnvCheckpointPart(moved, dist_to_cp)
        pen == EnvPenalty(moved)
    IN  [env |-> cp.env,
         reward |-> 100 * (e.prev_distance_to_checkpoint - dist_to_cp)
                    + cp.reward + 5 * move[2] + pen.reward,
         terminated |-> pen.terminated,
         far |-> /\ cp.env.next_checkpoint_idx # e.next_checkpoint_idx
                 /\ TrueDistToCheckpoint(moved, e.next_checkpoint_idx) >= 40]

\* the loop of RacingEnv.step over the moves of its updates
RECURSIVE EnvLoop(_, _, _)
EnvLoop(acc, moves, i) ==
    IF i > Len(moves) THEN acc
    ELSE LET r == EnvRepeat(acc.env, moves[i])
         IN  EnvLoop([env |-> r.env, reward |-> acc.reward + r.reward,
                      terminated |-> acc.terminated \/ r.terminated,
                      far |-> acc.far \/ r.far], moves, i + 1)

\* RacingEnv.step
EnvStep(e, moves) ==
    LET l == EnvLoop([env |-> e, reward |-> 0, terminated |-> FALSE,
                      far |-> FALSE], moves, 1)
    IN  [env |-> [l.env EXCEPT !.step_count = @ + 1],
         reward |-> l.reward, terminated |-> l.terminated,
         truncated |-> l.env.step_count + 1 >= l.env.max_episode_steps,
         far |-> l.far]

\* the point a checkpoint dict is read as by
\* HumanRewardRecorder._dist_to_checkpoint
RecCheckpointXY(cp) ==
    IF "pos" \in DOMAIN cp THEN cp.pos
    ELSE IF "position" \in DOMAIN cp THEN cp.position
    ELSE IF "center" \in DOMAIN cp THEN cp.center
    ELSE <<0, 0>>

\* HumanRewardRecorder._dist_to_checkpoint
RecDistToCheckpoint(r, idx) ==
    IF ~r.bound THEN 0
    ELSE LET cps == r.track_data.checkpoints
             c == RecCheckpointXY(cps[(idx % Len(cps)) + 1])
         IN  Hypot(r.car[1] - c[1], r.car[2] - c[2])

\* HumanRewardRecorder.__init__
RecorderInit(trk) ==
    [status |-> "new", track_data |-> trk, total_reward |-> 0,
     step_count |-> 0, bound |-> FALSE, car |-> <<0, 0>>,
     next_checkpoint_idx |-> 1, prev_distance_to_checkpoint |-> 0]

\* the car bound on the first update of the recorder
RecBind(r, p) ==
    IF r.bound THEN [r EXCEPT !.car = p]
    ELSE LET b == [r EXCEPT !.bound = TRUE, !.car = p]
         IN  [b EXCEPT !.prev_distance_to_checkpoint =
                           RecDistToCheckpoint(b, b.next_checkpoint_idx)]

\* the checkpoint and lap bonus of HumanRewardRecorder.update
RecCheckpointPart(r, dist_to_cp) ==
    IF dist_to_cp < 40
    THEN LET nxt == (r.next_checkpoint_idx + 1) % Len(r.track_data.checkpoints)
         IN  [rec |-> [r EXCEPT !.next_checkpoint_idx = nxt,
                                !.prev_distance_to_checkpoint =
                                     RecDistToCheckpoint(r, nxt)],
              reward |-> 2000 + (IF nxt = 0 THEN 10000 ELSE 0)]
    ELSE [rec |-> [r EXCEPT !.prev_distance_to_checkpoint = dist_to_cp],
          reward |-> 0]

\* the centering penalty of HumanRewardRecorder.update
RecCentering(r) ==
    LET d == DistToCenterline(r.track_data, r.car)
        w == r.track_data.width
        norm2 == RDiv(4000 * d * d, w * w)
    IN  IF 2 * d > w THEN 5000 ELSE RDiv(RDiv(norm2 * norm2, 1000), 2)

\* HumanRewardRecorder.update with the car at p: the recorder after it and
\* the reward of the step
RecUpdate(r, p) ==
    LET b == RecBind(r, p)
        dist_to_cp == RecDistToCheckpoint(b, b.next_checkpoint_idx)
        raw_progress == Max(Min(b.prev_distance_to_checkpoint - dist_to_cp, 10), -10)
        cp == RecCheckpointPart(b, dist_to_cp)
        step_reward == -50 + 300 * raw_progress + cp.reward - RecCentering(b)
    IN  [rec |-> [cp.rec EXCEPT !.status = "ready", !.step_count = @ + 1,
                                !.total_reward = @ + step_reward],
         reward |-> step_reward]

\* the recorder updated once after each update of a step
RECURSIVE RecLoop(_, _, _)
RecLoop(acc, moves, i) ==
    IF i > Len(moves) THEN acc
    ELSE LET u == RecUpdate(acc.rec, moves[i][1])
         IN  RecLoop([rec |-> u.rec, reward |-> acc.reward + u.reward],
                     moves, i + 1)

\* the sequences of n moves
MoveSeqs(n) == [1..n -> EnvMoveSet]

\* reset(): a new episode, with a new recorder beside the environment
EpisodeReset ==
    /\ env' = EnvReset(env)
    /\ rec' = RecorderInit(env.fixed_track)
    /\ out' = [status |-> "reset", reward |-> 0, terminated |-> FALSE,
               truncated |-> FALSE, rec_reward |-> 0, updates |-> 0,
               far |-> FALSE, was |-> 1]

\* step(action): action_repeat updates of the car, the recorder updated
\* after each of them
EpisodeStep(moves) ==
    /\ env.status = "ready"
    /\ env.step_count < MaxEnvSteps
    /\ \E s \in {EnvStep(env, moves)},
          r \in {RecLoop([rec |-> rec, reward |-> 0], moves, 1)} :
          /\ env' = s.env
          /\ rec' = r.rec
          /\ out' = [status |-> "step", reward |-> s.reward,
                     terminated |-> s.terminated, truncated |-> s.truncated,
                     rec_reward |-> r.reward,
                     updates |-> out.updates + Len(moves),
                     far |-> s.far, was |-> env.next_checkpoint_idx]

----------------------------------------------------------------------------
(* Game (src/game/game.py, src/states, src/modes) and the loop of main.py *)

VARIABLES
    game,       \* the Game object with its sessions, track and cars
    main        \* the variables of main() in src/main.py

NoGame == [status |-> "none"]

CHECKPOINT_RADIUS == 24

COLLISION_RADIUS_PLAYER == 15

COLLISION_RADIUS_AI == 15

START_MOVE_RADIUS == 40

ARCADE_WINS_TARGET == 3

GP_RACES_PER_CUP == 3

\* the presets of the three cups
GP_CUPS ==
    << << [seed |-> 1111, width |-> 52, complexity |-> 9],
          [seed |-> 1112, width |-> 48, complexity |-> 12],
          [seed |-> 1113, width |-> 54, complexity |-> 10] >>,
       << [seed |-> 2221, width |-> 58, complexity |-> 11],
          [seed |-> 2222, width |-> 60, complexity |-> 13],
          [seed |-> 2223, width |-> 56, complexity |-> 12] >>,
       << [seed |-> 3331, width |-> 46, complexity |-> 10],
          [seed |-> 3332, width |-> 44, complexity |-> 13],
          [seed |-> 3333, width |-> 48, complexity |-> 11] >> >>

\* the cups the menus of the model select (0-based, as in the source)
CupSet == {0, 2}

\* races started in one run of the program
MaxRaces == 4

\* The course.  Every track of the race loop is cut down to a start at
\* (0, 0) heading along +x and two checkpoints on the centerline, the first
\* at the start as generate_track places it.  Positions are whole pixels,
\* the width is in thousandths of a pixel as EffectiveWidth gives it.
CourseCheckpoints == << <<0, 0>>, <<200, 0>> >>

\* where along the course an update can leave a car
PlaceX == {0, 30, 200}

\* generate_track as the race loop sees its result
BuiltTrack(width, complexity, seed) ==
    [seed |-> seed,
     width |-> EffectiveWidth(width, complexity),
     start_pos |-> <<0, 0>>,
     checkpoints |->
         [k \in 1..Len(CourseCheckpoints) |->
             [position |-> CourseCheckpoints[k], index |-> k - 1,
              passed |-> FALSE]]]

\* compute_grid_positions: the tangent of the course is (1, 0), its normal
\* (0, 1)
GridOffset(trk) == Max(8, RDiv(trk.width * 22, 100000))

ComputeGridPositions(trk) ==
    << <<trk.start_pos[1], trk.start_pos[2] - GridOffset(trk)>>,
       <<trk.start_pos[1], trk.start_pos[2] + GridOffset(trk)>> >>

DistSq(p, q) == (p[1] - q[1]) * (p[1] - q[1]) + (p[2] - q[2]) * (p[2] - q[2])

\* whether the two cars touch
Touching(p, a) ==
    /\ DistSq(p, a) < (COLLISION_RADIUS_PLAYER + COLLISION_RADIUS_AI)
                       * (COLLISION_RADIUS_PLAYER + COLLISION_RADIUS_AI)
    /\ DistSq(p, a) > 0

\* where the updates of a frame can leave the two cars: each in its lane
\* at a place of the course; cars that overlap when the frame begins, as
\* on the grid of a narrow track, are still where they were, one update
\* moving a car by a few pixels at most
FramePlaces(trk, p, a) ==
    IF Touching(p, a) THEN {<<p, a>>}
    ELSE {<<x, -GridOffset(trk)>> : x \in PlaceX}
         \X {<<x, GridOffset(trk)>> : x \in PlaceX}

\* the collision block: the two cars pushed apart by half the overlap each
Separate(p, a) ==
    IF ~Touching(p, a) THEN <<p, a>>
    ELSE LET dist == Sqrt(DistSq(p, a))
             overlap == COLLISION_RADIUS_PLAYER + COLLISION_RADIUS_AI - dist
             sx == RDiv((a[1] - p[1]) * overlap, 2 * dist)
             sy == RDiv((a[2] - p[2]) * overlap, 2 * dist)
         IN  << <<p[1] - sx, p[2] - sy>>, <<a[1] + sx, a[2] + sy>> >>

\* the leave-grid test
LeftGrid(pos, spawn_pos) ==
    DistSq(pos, spawn_pos) > START_MOVE_RADIUS * START_MOVE_RADIUS

\* cp.get(key, False)
CpGet(cp, key) == IF key \in DOMAIN cp THEN cp[key] ELSE FALSE

\* cp[key] = True
CpSet(cp, key) ==
    [k \in DOMAIN cp \cup {key} |-> IF k = key THEN TRUE ELSE cp[k]]

\* a test that takes any active car as having reached the checkpoint
CpReachAnywhere(cp, key, active, pos) ==
    IF active /\ ~CpGet(cp, key) THEN CpSet(cp, key) ELSE cp

\* one checkpoint after the test of one car
CpReach(cp, key, active, pos) ==
    IF /\ active
       /\ ~CpGet(cp, key)
       /\ DistSq(pos, cp.position) <= CHECKPOINT_RADIUS * CHECKPOINT_RADIUS
    THEN CpSet(cp, key)
    ELSE cp

\* the checkpoint loop of a race frame
ReachAll(cps, p_active, p, a_active, a) ==
    [k \in 1..Len(cps) |->
        CpReach(CpReach(cps[k], "player_reached", p_active, p),
                "ai_reached", a_active, a)]

AllReached(cps, key) == \A k \in 1..Len(cps) : CpGet(cps[k], key)

\* whether the flags of cps can follow the flags of old in a frame of one
\* race that leaves the cars at p and a: none cleared, and none set unless
\* its car is active and within CHECKPOINT_RADIUS
FlagsFollow(old, cps, p_active, p, a_active, a) ==
    \A k \in 1..Len(old) :
        /\ CpGet(old[k], "player_reached") => CpGet(cps[k], "player_reached")
        /\ CpGet(old[k], "ai_reached") => CpGet(cps[k], "ai_reached")
        /\ (CpGet(cps[k], "player_reached") /\ ~CpGet(old[k], "player_reached"))
              => /\ p_active
                 /\ DistSq(p, old[k].position)
                      <= CHECKPOINT_RADIUS * CHECKPOINT_RADIUS
        /\ (CpGet(cps[k], "ai_reached") /\ ~CpGet(old[k], "ai_reached"))
              => /\ a_active
                 /\ DistSq(a, old[k].position)
                      <= CHECKPOINT_RADIUS * CHECKPOINT_RADIUS

\* whether a declared finish names a winner with every checkpoint flagged
FinishEarned(f) ==
    /\ f.winner \in {"Player 1", "PLAYER", "TIE"}
          => AllReached(f.checkpoints, "player_reached")
    /\ f.winner \in {"Player 2", "AI", "TIE"}
          => AllReached(f.checkpoints, "ai_reached")

NoFinish == [winner |-> "none"]

\* ArcadeSession.__init__
ArcadeInit ==
    [active |-> FALSE, player_wins |-> 0, ai_wins |-> 0,
     last_race_winner |-> "None"]

\* ArcadeSession.start
ArcadeStart(s) == [s EXCEPT !.active = TRUE, !.player_wins = 0, !.ai_wins = 0]

\* ArcadeSession.record_win
ArcadeRecordWin(s, winner) ==
    [s EXCEPT !.last_race_winner = winner,
              !.player_wins = IF winner = "Player 1" THEN @ + 1 ELSE @,
              !.ai_wins = IF winner = "Player 2" THEN @ + 1 ELSE @]

\* ArcadeSession.is_finished
ArcadeIsFinished(s) ==
    s.player_wins >= ARCADE_WINS_TARGET \/ s.ai_wins >= ARCADE_WINS_TARGET

\* GrandPrixSession.__init__
GrandPrixInit ==
    [active |-> FALSE, cup_index |-> 0, race_index |-> 0, player_wins |-> 0,
     ai_wins |-> 0, last_race_winner |-> "None"]

\* GrandPrixSession.start
GrandPrixStart(s, cup_index) ==
    [s EXCEPT !.active = TRUE, !.cup_index = cup_index, !.race_index = 0,
              !.player_wins = 0, !.ai_wins = 0]

\* GrandPrixSession.record_win
GrandPrixRecordWin(s, winner) ==
    [s EXCEPT !.last_race_winner = winner,
              !.player_wins = IF winner = "PLAYER" THEN @ + 1 ELSE @,
              !.ai_wins = IF winner = "AI" THEN @ + 1 ELSE @]

\* GrandPrixSession.next_race
GrandPrixNextRace(s) == [s EXCEPT !.race_index = @ + 1]

\* GrandPrixSession.is_finished
GrandPrixIsFinished(s) == s.race_index >= GP_RACES_PER_CUP

\* get_final_winner of both sessions
GetFinalWinner(s) ==
    IF s.player_wins > s.ai_wins THEN "PLAYER"
    ELSE IF s.ai_wins > s.player_wins THEN "AI"
    ELSE "TIE"

\* Game.__init__.  The fields below the sessions are not of the source:
\* races counts the calls of start_race, lookup is the last race index used
\* on GP_CUPS, finish what the last race frame declared, stale whether the
\* last Start Arcade Race came after a finished session.
GameInit ==
    [status |-> "ready", state |-> "menu", menu_substate |-> "root",
     settings |-> [mode |-> "ARCADE", gp_cup_index |-> 0],
     pending |-> [mode |-> "ARCADE", gp_cup_index |-> 0],
     track_data |-> BuiltTrack(50, 10, 555),
     player_car |-> <<0, 0>>, ai_car |-> <<-50, 0>>,
     player_spawn |-> <<0, 0>>, ai_spawn |-> <<0, 0>>,
     player_active |-> FALSE, ai_active |-> FALSE,
     arcade |-> ArcadeInit, grand_prix |-> GrandPrixInit,
     raised |-> "none",
     races |-> 0, lookup |-> 0, finish |-> NoFinish, stale |-> FALSE]

\* the cars, spawns and flags start_race sets once the track is chosen
GameGrid(g) ==
    [g EXCEPT !.player_car = ComputeGridPositions(g.track_data)[1],
              !.ai_car = ComputeGridPositions(g.track_data)[2],
              !.player_spawn = ComputeGridPositions(g.track_data)[1],
              !.ai_spawn = ComputeGridPositions(g.track_data)[2],
              !.player_active = FALSE, !.ai_active = FALSE,
              !.state = "race", !.races = @ + 1]

\* Game.start_race for the modes ARCADE and GRAND_PRIX
StartRace(g, settings) ==
    IF settings.mode = "GRAND_PRIX"
    THEN LET idx == g.grand_prix.race_index
         IN  IF idx >= Len(GP_CUPS[settings.gp_cup_index + 1])
             THEN [g EXCEPT !.settings = settings, !.lookup = idx,
                            !.raised = "IndexError"]
             ELSE LET t_conf == GP_CUPS[settings.gp_cup_index + 1][idx + 1]
                  IN  GameGrid(
                        [g EXCEPT
                           !.settings = settings, !.lookup = idx,
                           !.track_data = BuiltTrack(t_conf.width,
                                              t_conf.complexity, t_conf.seed),
                           !.grand_prix =
                               IF g.grand_prix.active THEN @
                               ELSE GrandPrixStart(@, settings.gp_cup_index)])
    ELSE GameGrid([g EXCEPT !.settings = settings,
                            !.arcade = IF g.arcade.active THEN @
                                       ELSE ArcadeStart(@)])

\* Game.handle_race_end
HandleRaceEnd(g, winner) ==
    IF g.settings.mode = "ARCADE"
    THEN LET s == ArcadeRecordWin(g.arcade, winner)
         IN  [g EXCEPT !.arcade = s,
                       !.state = IF ArcadeIsFinished(s) THEN "arcade_results"
                                 ELSE "arcade_transition"]
    ELSE LET s == GrandPrixNextRace(GrandPrixRecordWin(g.grand_prix, winner))
         IN  [g EXCEPT !.grand_prix = s,
                       !.state = IF GrandPrixIsFinished(s) THEN "gp_results"
                                 ELSE "gp_transition"]

\* handle_race up to the checkpoints: the cars where their updates left
\* them, pushed apart, marked active, the checkpoints flagged
RaceMoved(g, p, a) ==
    LET pa == Separate(p, a)
        p_active == g.player_active \/ LeftGrid(pa[1], g.player_spawn)
        a_active == g.ai_active \/ LeftGrid(pa[2], g.ai_spawn)
    IN  [g EXCEPT !.player_car = pa[1], !.ai_car = pa[2],
                  !.player_active = p_active, !.ai_active = a_active,
                  !.track_data.checkpoints =
                      ReachAll(@, p_active, pa[1], a_active, pa[2])]

\* the end of the checkpoint block of handle_race
RaceDecided(g) ==
    LET p1_all == AllReached(g.track_data.checkpoints, "player_reached")
        p2_all == AllReached(g.track_data.checkpoints, "ai_reached")
    IN  IF p1_all \/ p2_all
        THEN [HandleRaceEnd(g, IF p1_all THEN "Player 1" ELSE "Player 2")
                EXCEPT !.finish =
                    [winner |-> IF p1_all THEN "Player 1" ELSE "Player 2",
                     checkpoints |-> g.track_data.checkpoints,
                     active |-> g.player_active \/ g.ai_active]]
        ELSE [g EXCEPT !.finish = NoFinish]

\* the events of a race frame
RaceEvent(g, ev) ==
    IF ev = "ESC" THEN [g EXCEPT !.state = "menu", !.menu_substate = "root"]
    ELSE IF ev = "R" THEN StartRace(g, g.settings)
    ELSE g

\* handle_race for the two-player modes
HandleRace(g, p, a, ev) == RaceEvent(RaceDecided(RaceMoved(g, p, a)), ev)

EventSet == {"none", "ESC", "R"}

\* the Game is running: no exception has ended the program
Running == game.status = "ready" /\ game.raised = "none"

\* a frame of the race
RaceFrame(p, a, ev) ==
    /\ Running /\ game.state = "race"
    /\ ev = "R" => game.races < MaxRaces
    /\ game' = HandleRace(game, p, a, ev)

\* root menu: Arcade Mode
GoArcade ==
    /\ Running /\ game.state = "menu" /\ game.menu_substate = "root"
    /\ game' = [game EXCEPT !.menu_substate = "arcade",
                            !.pending.mode = "ARCADE"]

\* root menu: Grand Prix
GoGp ==
    /\ Running /\ game.state = "menu" /\ game.menu_substate = "root"
    /\ game' = [game EXCEPT !.menu_substate = "grand_prix",
                            !.pending.mode = "GRAND_PRIX"]

\* the Back buttons and ESC of the menus below the root
MenuBack ==
    /\ Running /\ game.state = "menu" /\ game.menu_substate # "root"
    /\ \E sub \in {"root"} \cup (IF game.menu_substate = "arcade_track"
                                   THEN {"arcade"} ELSE {}) :
          game' = [game EXCEPT !.menu_substate = sub]

\* arcade menu: Track Options...
OpenTrack ==
    /\ Running /\ game.state = "menu" /\ game.menu_substate = "arcade"
    /\ game' = [game EXCEPT !.menu_substate = "arcade_track"]

\* settings.update(pending)
SettingsUpdate(g) ==
    [g EXCEPT !.settings.mode = g.pending.mode,
              !.settings.gp_cup_index = g.pending.gp_cup_index]

\* arcade menu: Start Arcade Race
StartArcadeRace ==
    /\ Running /\ game.state = "menu" /\ game.menu_substate = "arcade"
    /\ game.races < MaxRaces
    /\ game' =
         LET u == SettingsUpdate(game)
             s == [u EXCEPT !.arcade = IF u.arcade.active THEN @
                                       ELSE ArcadeStart(@)]
         IN  [StartRace(s, s.settings)
                EXCEPT !.state = "arcade_countdown",
                       !.stale = ArcadeIsFinished(game.arcade)]

\* arcade menu and track settings: Apply & Preview
ApplyPreview ==
    /\ Running /\ game.state = "menu"
    /\ game.menu_substate \in {"arcade", "arcade_track"}
    /\ game.races < MaxRaces
    /\ game' = [StartRace(SettingsUpdate(game), SettingsUpdate(game).settings)
                  EXCEPT !.stale = FALSE]

\* grand prix menu: a cup picked
SelectCup(i) ==
    /\ Running /\ game.state = "menu" /\ game.menu_substate = "grand_prix"
    /\ game' = [game EXCEPT !.pending.gp_cup_index = i]

\* grand prix menu: Start Grand Prix
StartGp ==
    /\ Running /\ game.state = "menu" /\ game.menu_substate = "grand_prix"
    /\ game.races < MaxRaces
    /\ game' =
         LET u == SettingsUpdate(game)
             s == [u EXCEPT !.grand_prix =
                                GrandPrixStart(@, game.pending.gp_cup_index)]
             r == StartRace(s, [s.settings EXCEPT !.mode = "GRAND_PRIX"])
         IN  IF r.raised = "none" THEN [r EXCEPT !.state = "arcade_countdown"]
             ELSE r

\* handle_countdown: the timer runs out, or ESC is pressed
CountdownFrame(ev) ==
    /\ Running /\ game.state = "arcade_countdown"
    /\ game' = IF ev = "ESC"
               THEN [game EXCEPT !.state = "menu", !.menu_substate = "root"]
               ELSE [game EXCEPT !.state = "race"]

\* handle_transition: the timer runs out, or ESC is pressed
TransitionFrame(ev) ==
    /\ Running /\ game.state \in {"arcade_transition", "gp_transition"}
    /\ (ev # "ESC" /\ game.state = "gp_transition") => game.races < MaxRaces
    /\ game' =
         IF ev = "ESC"
         THEN [game EXCEPT !.state = "menu", !.menu_substate = "root"]
         ELSE IF game.state = "arcade_transition"
         THEN [game EXCEPT !.state = "menu", !.menu_substate = "arcade"]
         ELSE LET r == StartRace(game,
                           [game.settings EXCEPT !.mode = "GRAND_PRIX"])
              IN  IF r.raised = "none"
                  THEN [r EXCEPT !.state = "arcade_countdown"]
                  ELSE r

\* handle_results: Back to Main Menu, or ESC
ResultsBack ==
    /\ Running /\ game.state \in {"arcade_results", "gp_results"}
    /\ game' = [game EXCEPT !.state = "menu", !.menu_substate = "root"]

NoMain == [status |-> "none"]

\* the widths the Width buttons of the track menu of the model lead to
TrackWidthSet == {50, 80}

\* build_world: a new track with its flags cleared, the cars on the grid
BuildWorld(m, width, complexity, seed) ==
    LET t == BuiltTrack(width, complexity, seed)
        flagged == [t EXCEPT !.checkpoints =
                       [k \in 1..Len(@) |->
                           [position |-> @[k].position, index |-> @[k].index,
                            passed |-> @[k].passed,
                            player_reached |-> FALSE, ai_reached |-> FALSE]]]
    IN  [m EXCEPT !.track_data = flagged,
                  !.player_car = ComputeGridPositions(flagged)[1],
                  !.ai_car = ComputeGridPositions(flagged)[2],
                  !.player_spawn = ComputeGridPositions(flagged)[1],
                  !.ai_spawn = ComputeGridPositions(flagged)[2],
                  !.player_active = FALSE, !.ai_active = FALSE,
                  !.race_finished = FALSE, !.race_winner = "None",
                  !.race_no = 1 - @]

\* build_gp_world
BuildGpWorld(m, cup_index, race_index) ==
    LET preset == GP_CUPS[cup_index + 1][race_index + 1]
    IN  BuildWorld(m, preset.width, preset.complexity, preset.seed)

\* the state of main() when its loop begins, with the Car class the import
\* of main.py found: one with the attributes vx and vy the collision block
\* reads, or the one of src/car.py, which has neither.  arcade_race (the
\* race was started with Start Arcade Race), finish (what the last race
\* frame declared) and race_no (flipped whenever the cars are put on the
\* grid) are not of the source.
MainInit(has_v) ==
    BuildWorld(
        [status |-> "ready", has_v |-> has_v,
         GAME_STATE |-> "menu", MENU_STATE |-> "root",
         current_settings |-> [mode |-> "ARCADE", track_width |-> 50,
                               complexity |-> 10, gp_cup_index |-> 0],
         pending_settings |-> [mode |-> "ARCADE", track_width |-> 50,
                               complexity |-> 10, gp_cup_index |-> 0],
         track_data |-> NoTrack,
         player_car |-> <<0, 0>>, ai_car |-> <<0, 0>>,
         player_spawn |-> <<0, 0>>, ai_spawn |-> <<0, 0>>,
         player_active |-> FALSE, ai_active |-> FALSE,
         race_finished |-> FALSE, race_winner |-> "None",
         arcade_session_active |-> FALSE, player_wins |-> 0, ai_wins |-> 0,
         gp_session_active |-> FALSE, gp_race_index |-> 0,
         gp_player_wins |-> 0, gp_ai_wins |-> 0, gp_active_cup_index |-> 0,
         raised |-> "none", arcade_race |-> FALSE, finish |-> NoFinish,
         race_no |-> 0],
        50, 10, NoSeed)

\* the cars back on the grid and the flags cleared, as Start Arcade Race
\* and the R key do
ResetToGrid(m) ==
    [m EXCEPT !.player_car = ComputeGridPositions(m.track_data)[1],
              !.ai_car = ComputeGridPositions(m.track_data)[2],
              !.player_spawn = ComputeGridPositions(m.track_data)[1],
              !.ai_spawn = ComputeGridPositions(m.track_data)[2],
              !.player_active = FALSE, !.ai_active = FALSE,
              !.race_finished = FALSE, !.race_winner = "None",
              !.race_no = 1 - @,
              !.track_data.checkpoints =
                  [k \in 1..Len(@) |->
                      [@[k] EXCEPT !.player_reached = FALSE,
                                   !.ai_reached = FALSE]]]

\* back_to_mode_select and the ESC key outside the menu
AbortSessions(m) ==
    [m EXCEPT !.GAME_STATE = "menu", !.MENU_STATE = "root",
              !.arcade_session_active = FALSE,
              !.player_wins = 0, !.ai_wins = 0,
              !.gp_session_active = FALSE,
              !.gp_player_wins = 0, !.gp_ai_wins = 0, !.gp_race_index = 0]

\* the race part of a frame up to the winner: updates, collision,
\* activation, checkpoints
MainRaceMoved(m, p, a) ==
    IF Touching(p, a) /\ ~m.has_v
    THEN [m EXCEPT !.player_car = Separate(p, a)[1],
                   !.ai_car = Separate(p, a)[2],
                   !.raised = "AttributeError"]
    ELSE LET pa == Separate(p, a)
             p_active == m.player_active \/ LeftGrid(pa[1], m.player_spawn)
             a_active == m.ai_active \/ LeftGrid(pa[2], m.ai_spawn)
         IN  [m EXCEPT !.player_car = pa[1], !.ai_car = pa[2],
                       !.player_active = p_active, !.ai_active = a_active,
                       !.track_data.checkpoints =
                           ReachAll(@, p_active, pa[1], a_active, pa[2])]

\* the winner of a frame
MainRaceDecided(m) ==
    LET player_all == AllReached(m.track_data.checkpoints, "player_reached")
        ai_all == AllReached(m.track_data.checkpoints, "ai_reached")
        winner == IF player_all /\ ~ai_all THEN "PLAYER"
                  ELSE IF ai_all /\ ~player_all THEN "AI"
                  ELSE "TIE"
    IN  IF m.raised = "none" /\ (player_all \/ ai_all)
        THEN [m EXCEPT !.race_finished = TRUE, !.race_winner = winner,
                       !.finish = [winner |-> winner,
                                   checkpoints |-> m.track_data.checkpoints,
                                   active |-> m.player_active \/ m.ai_active]]
        ELSE [m EXCEPT !.finish = NoFinish]

\* the end of a race, handled in the frame that finished it
MainRaceEnd(m) ==
    IF ~m.race_finished \/ m.raised # "none" THEN m
    ELSE IF m.current_settings.mode = "ARCADE" /\ m.arcade_session_active
    THEN LET pw == m.player_wins + (IF m.race_winner = "PLAYER" THEN 1 ELSE 0)
             aw == m.ai_wins + (IF m.race_winner = "AI" THEN 1 ELSE 0)
             over == pw >= ARCADE_WINS_TARGET \/ aw >= ARCADE_WINS_TARGET
         IN  [m EXCEPT !.player_wins = pw, !.ai_wins = aw,
                       !.arcade_session_active = ~over,
                       !.GAME_STATE = IF over THEN "arcade_results"
                                      ELSE "arcade_transition"]
    ELSE IF m.current_settings.mode = "GRAND_PRIX" /\ m.gp_session_active
    THEN [m EXCEPT
            !.gp_player_wins = IF m.race_winner = "PLAYER" THEN @ + 1 ELSE @,
            !.gp_ai_wins = IF m.race_winner = "AI" THEN @ + 1 ELSE @,
            !.gp_race_index = @ + 1,
            !.gp_session_active = m.gp_race_index + 1 < GP_RACES_PER_CUP,
            !.GAME_STATE = IF m.gp_race_index + 1 < GP_RACES_PER_CUP
                           THEN "gp_transition" ELSE "gp_results"]
    ELSE [m EXCEPT !.GAME_STATE = "menu", !.MENU_STATE = "root"]

\* the program of main.py is running: no exception has ended it
MainRunning == main.status = "ready" /\ main.raised = "none"

\* a frame of the race: the R key or no event, then the race
MainRaceFrame(ev, p, a) ==
    /\ MainRunning /\ main.GAME_STATE = "race"
    /\ main' = MainRaceEnd(MainRaceDecided(MainRaceMoved(
                    IF ev = "R" THEN ResetToGrid(main) ELSE main, p, a)))

\* a frame with the ESC key outside the menu
MainEscape ==
    /\ MainRunning /\ main.GAME_STATE # "menu"
    /\ main' = AbortSessions(main)

\* root menu: Arcade
MainGoArcade ==
    /\ MainRunning /\ main.GAME_STATE = "menu" /\ main.MENU_STATE = "root"
    /\ main' = [main EXCEPT !.MENU_STATE = "arcade",
                            !.pending_settings.mode = "ARCADE"]

\* root menu: Grand Prix
MainGoGp ==
    /\ MainRunning /\ main.GAME_STATE = "menu" /\ main.MENU_STATE = "root"
    /\ main' = [main EXCEPT !.MENU_STATE = "grand_prix",
                            !.pending_settings.mode = "GRAND_PRIX"]

\* the Back buttons and ESC of the menus below the root
MainMenuBack ==
    /\ MainRunning /\ main.GAME_STATE = "menu" /\ main.MENU_STATE # "root"
    /\ \E sub \in {"root"} \cup (IF main.MENU_STATE = "arcade_track"
                                   THEN {"arcade"} ELSE {}) :
          main' = [main EXCEPT !.MENU_STATE = sub]

\* arcade menu: Track Options...
MainGoTrackMenu ==
    /\ MainRunning /\ main.GAME_STATE = "menu" /\ main.MENU_STATE = "arcade"
    /\ main' = [main EXCEPT !.MENU_STATE = "arcade_track"]

\* track menu: Width - or Width + pressed until the pending width is w
MainWidth(w) ==
    /\ MainRunning /\ main.GAME_STATE = "menu"
    /\ main.MENU_STATE = "arcade_track"
    /\ main' = [main EXCEPT !.pending_settings.track_width = w]

\* arcade menu and track menu: Apply & Preview Track
MainApplyAndPreview ==
    /\ MainRunning /\ main.GAME_STATE = "menu"
    /\ main.MENU_STATE \in {"arcade", "arcade_track"}
    /\ main' =
         LET s == [main.pending_settings EXCEPT !.mode = "ARCADE"]
         IN  BuildWorld([main EXCEPT !.pending_settings = s,
                                     !.current_settings = s],
                        s.track_width, s.complexity, NoSeed)

\* arcade menu: Start Arcade Race
MainStartArcadeRace ==
    /\ MainRunning /\ main.GAME_STATE = "menu" /\ main.MENU_STATE = "arcade"
    /\ main' = [ResetToGrid(main) EXCEPT !.arcade_session_active = TRUE,
                                         !.GAME_STATE = "arcade_countdown",
                                         !.arcade_race = TRUE,
                                         !.finish = NoFinish]

\* grand prix menu: a cup picked
MainSelectCup(i) ==
    /\ MainRunning /\ main.GAME_STATE = "menu"
    /\ main.MENU_STATE = "grand_prix"
    /\ main' = [main EXCEPT !.pending_settings.gp_cup_index = i]

\* grand prix menu: Start Grand Prix (start_gp_session)
MainStartGpSession ==
    /\ MainRunning /\ main.GAME_STATE = "menu"
    /\ main.MENU_STATE = "grand_prix"
    /\ main' =
         BuildGpWorld(
            [main EXCEPT !.gp_session_active = TRUE, !.gp_race_index = 0,
                         !.gp_player_wins = 0, !.gp_ai_wins = 0,
                         !.gp_active_cup_index =
                             main.pending_settings.gp_cup_index,
                         !.current_settings.mode = "GRAND_PRIX",
                         !.current_settings.gp_cup_index =
                             main.pending_settings.gp_cup_index,
                         !.GAME_STATE = "arcade_countdown",
                         !.arcade_race = FALSE, !.finish = NoFinish],
            main.pending_settings.gp_cup_index, 0)

\* a frame of the countdown in which the timer runs out
MainCountdownFrame ==
    /\ MainRunning /\ main.GAME_STATE = "arcade_countdown"
    /\ main' = [main EXCEPT !.GAME_STATE = "race"]

\* a frame of a transition in which the timer runs out
MainTransitionFrame ==
    /\ MainRunning
    /\ main.GAME_STATE \in {"arcade_transition", "gp_transition"}
    /\ main' =
         IF main.GAME_STATE = "arcade_transition"
         THEN [main EXCEPT !.GAME_STATE = "menu", !.MENU_STATE = "arcade"]
         ELSE BuildGpWorld([main EXCEPT !.GAME_STATE = "arcade_countdown",
                                        !.arcade_race = FALSE],
                           main.gp_active_cup_index, main.gp_race_index)

\* results: Back to Mode Select
MainResultsBack ==
    /\ MainRunning /\ main.GAME_STATE \in {"arcade_results", "gp_results"}
    /\ main' = AbortSessions(main)

appVars == <<env, rec, out, game, main>>

----------------------------------------------------------------------------
(* Specifications *)

vars == <<ambient, call, memo, nCalls, nUnseeded, ob, car, prev, op, spawn,
          track, raised, nUpdates, nInputs, nResets, rival, nRival, frame,
          env, rec, out, game, main>>

IdleGen ==
    /\ ambient = 0 /\ call = NoCall /\ memo = NoCall
    /\ nCalls = 0 /\ nUnseeded = 0

IdleOffset == ob = NoOffsets

IdleCar ==
    /\ car = NoCar /\ prev = NoCar /\ op = "none" /\ spawn = <<0, 0, 0>>
    /\ track = NoTrack /\ raised = "none"
    /\ nUpdates = 0 /\ nInputs = 0 /\ nResets = 0
    /\ rival = NoCar /\ nRival = 0 /\ frame = 0

IdleEnv == env = NoEnv /\ rec = NoRecorder /\ out = NoOut

IdleGame == game = NoGame

IdleMain == main = NoMain

IdleApp == IdleEnv /\ IdleGame /\ IdleMain

\* Spec: generate_track called in any order with any arguments
Init == InitGen /\ IdleOffset /\ IdleCar /\ IdleApp

Next == GenerateAny /\ UNCHANGED <<ob, carVars, frame, appVars>>

Spec == Init /\ [][Next]_vars

\* SpecDet: counted generate_track calls, the first seeded one remembered
NextDet == GenerateCounted /\ UNCHANGED <<ob, carVars, frame, appVars>>

SpecDet == Init /\ [][NextDet]_vars

\* SpecDense: one call of generate_track at the highest complexity
NextDense == GenerateDense /\ UNCHANGED <<ob, carVars, frame, appVars>>

SpecDense == Init /\ [][NextDense]_vars

\* SpecWidth: one call of generate_track around the width thresholds
NextWidth == GenerateShrunk /\ UNCHANGED <<ob, carVars, frame, appVars>>

SpecWidth == Init /\ [][NextWidth]_vars

\* SpecOffset: _offset_boundaries applied to one centerline
InitOffsetOnly == IdleGen /\ InitOffset /\ IdleCar /\ IdleApp

NextOffset == ApplyOffset /\ UNCHANGED <<genVars, carVars, frame, appVars>>

SpecOffset == InitOffsetOnly /\ [][NextOffset]_vars

\* SpecCar: one car, its inputs set and its update called
InitCarOnly == IdleGen /\ IdleOffset /\ InitCar /\ IdleApp

NextCar ==
    \/ \E th \in ThrottleSet, st \in SteeringSet, hb \in BOOLEAN :
          SetInput(th, st, hb) /\ UNCHANGED <<genVars, ob, frame, appVars>>
    \/ \E dt \in DtSet : Update(dt) /\ UNCHANGED <<genVars, ob, frame, appVars>>

SpecCar == InitCarOnly /\ [][NextCar]_vars

\* SpecTrack: one car heading outward, updated on track data of any shape
InitTrack ==
    /\ IdleGen /\ IdleOffset /\ IdleApp
    /\ \E t \in TrackSet : Construct(TrackSpawnSet, {0}, TrackTuningSet, t)

NextTrack ==
    \/ \E th \in {0, 1000}, st \in {0, 1000} :
          SetInput(th, st, FALSE) /\ UNCHANGED <<genVars, ob, frame, appVars>>
    \/ \E dt \in DtSet : Update(dt) /\ UNCHANGED <<genVars, ob, frame, appVars>>

SpecTrack == InitTrack /\ [][NextTrack]_vars

\* SpecShared: the two cars of a race set and updated in any order on one
\* track
InitShared ==
    /\ IdleGen /\ IdleOffset /\ IdleApp
    /\ ConstructBoth({<<91500, 40000>>}, {0}, {<<20000, 1500>>}, RingTrack)

NextShared ==
    \/ \E st \in {0, 1000} :
          SetInput(1000, st, FALSE) /\ UNCHANGED <<genVars, ob, frame, appVars>>
    \/ \E st \in {0, 1000} :
          RivalSetInput(1000, st, FALSE) /\ UNCHANGED <<genVars, ob, frame, appVars>>
    \/ \E dt \in DtSet : Update(dt) /\ UNCHANGED <<genVars, ob, frame, appVars>>
    \/ \E dt \in DtSet : RivalUpdate(dt) /\ UNCHANGED <<genVars, ob, frame, appVars>>

SpecShared == InitShared /\ [][NextShared]_vars

\* SpecLife: one car of the default tuning through set_input, update and
\* reset in any order
InitLife ==
    IdleGen /\ IdleOffset /\ IdleApp
            /\ Construct(ResetSet, {3142}, {<<20000, 1500>>}, RingTrack)

NextLife ==
    \/ \E i \in LifeInputSet :
          SetInput(i[1], i[2], i[3]) /\ UNCHANGED <<genVars, ob, frame, appVars>>
    \/ \E dt \in DtSet : Update(dt) /\ UNCHANGED <<genVars, ob, frame, appVars>>
    \/ \E p \in ResetSet, a \in AngleSet :
          Reset(p[1], p[2], a) /\ UNCHANGED <<genVars, ob, frame, appVars>>

SpecLife == InitLife /\ [][NextLife]_vars

\* SpecGame: the Game of src/game/game.py run by the handlers of src/states
\* through the menus and races of the modes ARCADE and GRAND_PRIX
InitGame ==
    /\ IdleGen /\ IdleOffset /\ IdleCar /\ IdleEnv /\ IdleMain
    /\ game = GameInit

GameStep ==
    \/ GoArcade
    \/ GoGp
    \/ MenuBack
    \/ OpenTrack
    \/ StartArcadeRace
    \/ ApplyPreview
    \/ \E i \in CupSet : SelectCup(i)
    \/ StartGp
    \/ \E ev \in {"none", "ESC"} : CountdownFrame(ev)
    \/ \E pa \in FramePlaces(game.track_data, game.player_car, game.ai_car),
          ev \in EventSet : RaceFrame(pa[1], pa[2], ev)
    \/ \E ev \in {"none", "ESC"} : TransitionFrame(ev)
    \/ ResultsBack

NextGame ==
    /\ game.status = "ready"
    /\ GameStep
    /\ UNCHANGED <<genVars, ob, carVars, frame, envVars, main>>

SpecGame == InitGame /\ [][NextGame]_vars

\* whether the Car that main.py drives has the world-frame velocity vx, vy
\* that its collision block reads: the Car of the specification has it, the
\* Car of src/car.py has not
CarHasVelocity == BOOLEAN

\* SpecMain: the loop of src/main.py through its menus and races
InitMain ==
    /\ IdleGen /\ IdleOffset /\ IdleCar /\ IdleEnv /\ IdleGame
    /\ \E has_v \in CarHasVelocity : main = MainInit(has_v)

MainStep ==
    \/ MainGoArcade
    \/ MainGoGp
    \/ MainMenuBack
    \/ MainGoTrackMenu
    \/ \E w \in TrackWidthSet : MainWidth(w)
    \/ MainApplyAndPreview
    \/ MainStartArcadeRace
    \/ \E i \in CupSet : MainSelectCup(i)
    \/ MainStartGpSession
    \/ MainCountdownFrame
    \/ \E pa \in FramePlaces(main.track_data, main.player_car, main.ai_car),
          ev \in {"none", "R"} : MainRaceFrame(ev, pa[1], pa[2])
    \/ MainTransitionFrame
    \/ MainResultsBack
    \/ MainEscape

NextMain ==
    /\ main.status = "ready"
    /\ MainStep
    /\ UNCHANGED <<genVars, ob, carVars, frame, envVars, game>>

SpecMain == InitMain /\ [][NextMain]_vars

\* SpecRace: either program, the Game or the loop of main.py, through its
\* menus and races
InitRace == InitGame \/ InitMain

NextRace == NextGame \/ NextMain

SpecRace == InitRace /\ [][NextRace]_vars

\* SpecEnv: a RacingEnv on a generated track, reset and stepped, a
\* HumanRewardRecorder updated beside it
InitEnv ==
    /\ IdleGen /\ IdleOffset /\ IdleCar /\ IdleGame /\ IdleMain
    /\ \E ar \in ActionRepeatSet, ms \in MaxEpisodeMsSet :
          env = EnvInit(ar, ms, EnvTrack)
    /\ rec = RecorderInit(EnvTrack)
    /\ out = NoOut

NextEnv ==
    \/ EpisodeReset /\ UNCHANGED <<genVars, ob, carVars, frame, game, main>>
    \/ \E moves \in MoveSeqs(env.action_repeat) :
          EpisodeStep(moves)
          /\ UNCHANGED <<genVars, ob, carVars, frame, game, main>>

SpecEnv == InitEnv /\ [][NextEnv]_vars

\* SpecBrake: a car of the default tuning driven forward for some frames,
\* then the brake held on every frame from then on, the frames of the race
\* loop coming 60 to the second without end
BrakeDtSet == {17}

InitBrake ==
    IdleGen /\ IdleOffset /\ IdleApp
            /\ Construct({<<85000, 40000>>}, AngleSet, {<<20000, 1500>>}, RingTrack)

NextBrake ==
    \/ \E dt \in DtSet : DriveFrame(dt) /\ UNCHANGED <<genVars, ob, appVars>>
    \/ \E dt \in BrakeDtSet : BrakeFrame(dt) /\ UNCHANGED <<genVars, ob, appVars>>

\* the race loop never stops: another frame always comes
NextFrame == frame' = 1 - frame

BrakeFairness == WF_frame(NextFrame)

SpecBrake == InitBrake /\ [][NextBrake]_vars /\ BrakeFairness

----------------------------------------------------------------------------
(* Properties of generate_track *)

Returned == call.status = "ok"

SameArgs(a, b) ==
    /\ a.width = b.width
    /\ a.complexity = b.complexity
    /\ a.seed = b.seed
    /\ a.weather = b.weather

\* the boundaries as _offset_boundaries left them, before the sanity check
RawBoundaries(t) == OffsetBoundaries(t.centerline, t.width)

\* the sanity check swapped inner and outer in the last call
Swapped ==
    /\ Returned
    /\ call.track.inner_boundary = RawBoundaries(call.track).outer
    /\ call.track.inner_boundary # RawBoundaries(call.track).inner

\* squared distance between two points
Dist2(a, b) == (a[1] - b[1]) * (a[1] - b[1]) + (a[2] - b[2]) * (a[2] - b[2])

\* C1: two calls with the same arguments and a non-null seed (0 included)
\* return the same centerline, boundaries, racing line and checkpoints,
\* whatever calls, seeded or unseeded, ran before or between them.
C1_SeededDeterminism ==
    (Returned /\ memo.status = "ok" /\ call.seed # NoSeed /\ SameArgs(call, memo))
        => /\ call.track.centerline = memo.track.centerline
           /\ call.track.inner_boundary = memo.track.inner_boundary
           /\ call.track.outer_boundary = memo.track.outer_boundary
           /\ call.track.racing_line = memo.track.racing_line
           /\ call.track.checkpoints = memo.track.checkpoints

\* the third call repeats the first, seeded with 0, after an unseeded call
\* moved the module-level generator
C1_Witness ==
    /\ nCalls = 3
    /\ Returned /\ memo.status = "ok"
    /\ call.seed = 0
    /\ SameArgs(call, memo)
    /\ call.before # memo.before

\* C2: the four point lists of a returned track have the same length, and
\* point i of the boundaries and of the racing line belongs to centerline
\* point i: the boundaries are mirror images about it and the racing line
\* point is no farther from it than the boundary, swapped or not.
C2_Cardinality ==
    Returned =>
        LET t == call.track
            n == Len(t.centerline)
        IN  /\ Len(t.inner_boundary) = n
            /\ Len(t.outer_boundary) = n
            /\ Len(t.racing_line) = n
            /\ \A i \in 1..n :
                  /\ t.inner_boundary[i][1] + t.outer_boundary[i][1] = 2 * t.centerline[i][1]
                  /\ t.inner_boundary[i][2] + t.outer_boundary[i][2] = 2 * t.centerline[i][2]
                  /\ Dist2(t.racing_line[i], t.centerline[i])
                         <= Dist2(t.inner_boundary[i], t.centerline[i])

\* a returned track of the narrow width whose boundaries were swapped
C2_Witness == Swapped /\ call.width = 50 /\ Len(call.track.racing_line) = 144

\* C3: every sampled inner-boundary point of a returned track lies inside
\* the returned outer-boundary polygon, the single swap of the sanity check
\* being enough for every track generate_track returns.
C3_Containment ==
    Returned =>
        \A i \in SampleIdx(Len(call.track.inner_boundary)) :
            PointInPolygon(call.track.inner_boundary[i + 1], call.track.outer_boundary)

\* C5: a weather tag outside the enumeration ends the call in an error with
\* no descriptor; a tag inside it returns a descriptor carrying that tag.
C5_WeatherChecked ==
    call.status # "none" =>
        IF call.weather \in {"CLEAR", "RAIN", "SNOW"}
          THEN Returned /\ call.track.intended_weather = call.weather
          ELSE call.status = "AssertionError" /\ call.track = << >>

\* a call with the tag FOG ended in the error
C5_Witness == call.status = "AssertionError" /\ call.weather = "FOG"

\* C6: a call with complexity below 6 (zero and negative included) ends as
\* the call with complexity 6 does from the same generator state, with the
\* same descriptor, and returns whenever its weather tag is in the
\* enumeration.
C6_ComplexityRaised ==
    (call.status # "none" /\ call.complexity < 6) =>
        /\ call.weather \in {"CLEAR", "RAIN", "SNOW"} => Returned
        /\ call.status = GenerateTrack(call.width, 6, call.seed, call.weather,
                                       call.before).status
        /\ call.track = GenerateTrack(call.width, 6, call.seed, call.weather,
                                      call.before).track

\* a call with a negative complexity returned
C6_Witness == Returned /\ call.complexity < 0

\* C7: a returned track has 8 checkpoints, checkpoint i with index i at
\* centerline[i * (len div 8)], the 8 centerline indices strictly
\* increasing, and checkpoint 0 at start_pos = centerline[0].
C7_Checkpoints ==
    Returned =>
        LET t    == call.track
            len  == Len(t.centerline)
            step == len \div 8
        IN  /\ Len(t.checkpoints) = 8
            /\ step >= 1 /\ 7 * step < len
            /\ \A k \in 1..8 :
                  /\ t.checkpoints[k].index = k - 1
                  /\ t.checkpoints[k].position = t.centerline[(k - 1) * step + 1]
            /\ t.checkpoints[1].position = t.start_pos
            /\ t.start_pos = t.centerline[1]

\* a seeded call returned a track with its checkpoints
C7_Witness == Returned /\ call.seed = 1 /\ Len(call.track.checkpoints) = 8

\* C18: the centerline of a returned track holds 8 points per control
\* point, 8 * max(6, complexity) in all, whatever the number of Chaikin
\* iterations.
C18_EightPerControl ==
    Returned => Len(call.track.centerline) = 8 * Max(6, call.complexity)

\* the requested width (pixels) times 0.9 from complexity 14, times 0.8
\* from complexity 18, times 0.9 from width 70, in thousandths of a pixel
ShrunkWidth(width, complexity) ==
    (width * (IF complexity >= 14 THEN 9 ELSE 10)
           * (IF complexity >= 18 THEN 8 ELSE 10)
           * (IF width >= 70 THEN 9 ELSE 10))

\* C19: the width of a returned descriptor is the requested width times
\* 0.9 when complexity >= 14, times 0.8 when complexity >= 18, times 0.9
\* when the requested width >= 70; it is at most the requested width, and
\* the returned boundaries are the offsets of the returned centerline by
\* this width, as they are or swapped.
C19_EffectiveWidth ==
    Returned =>
        /\ call.track.width = ShrunkWidth(call.width, call.complexity)
        /\ call.track.width <= 1000 * call.width
        /\ \/ /\ call.track.inner_boundary = RawBoundaries(call.track).inner
              /\ call.track.outer_boundary = RawBoundaries(call.track).outer
           \/ /\ call.track.inner_boundary = RawBoundaries(call.track).outer
              /\ call.track.outer_boundary = RawBoundaries(call.track).inner

\* a returned track of requested width 70 and complexity 18, shrunk by all
\* three factors to 45.36
C19_Witness ==
    /\ Returned /\ call.width = 70 /\ call.complexity = 18
    /\ call.track.width = 45360

----------------------------------------------------------------------------
(* Properties of _offset_boundaries *)

\* C4: every boundary point returned by _offset_boundaries lies at least
\* 0.40 * (width / 2) from its centerline point (20 * width centi-pixels,
\* less 2 for rounding), points with a zero-length tangent included.
C4_MinimumHalfWidth ==
    ob.status = "returned" =>
        \A i \in 1..Len(ob.center) :
            /\ Dist2(ob.center[i], ob.inner[i])
                   >= (20 * ob.width - 2) * (20 * ob.width - 2)
            /\ Dist2(ob.center[i], ob.outer[i])
                   >= (20 * ob.width - 2) * (20 * ob.width - 2)

\* the turn angle (milli-radians) at centerline point i
TurnAngle(center, i) ==
    Acos(TurnCos(<<center[i][1] - center[PrevIdx(i, Len(center))][1],
                   center[i][2] - center[PrevIdx(i, Len(center))][2]>>,
                 <<center[NextIdx(i, Len(center))][1] - center[i][1],
                   center[NextIdx(i, Len(center))][2] - center[i][2]>>))

\* the neighbours of centerline point i are two different points
HasTangent(center, i) ==
    center[PrevIdx(i, Len(center))] # center[NextIdx(i, Len(center))]

\* clamp(1 - (curvature / pi) * 1.2 * widthScale, 0.40, 1.0) in thousandths,
\* widthScale = min(1, width / 60), width in thousandths of a pixel
ClampedPinch(theta, width) ==
    Max(400, Min(1000,
        1000 - RDiv(RDiv(RDiv(theta * 1000, 3142) * 1200, 1000)
                        * Min(1000, RDiv(width, 60)), 1000)))

\* (width / 2) * pinchFactor in centi-pixels, width in pixels
ClampedOffset(theta, width) ==
    RDiv(RDiv(500 * width * ClampedPinch(theta, 1000 * width), 1000), 10)

\* C17: at every centerline point (with a tangent: where the neighbours
\* coincide the offset is zero, see C4) both boundaries lie at
\* (width / 2) * clamp(1 - (curvature / pi) * 1.2 * min(1, width / 60),
\* 0.40, 1.0) from the centerline, within 3 centi-pixels of rounding,
\* whatever the turn angle and the width.
C17_PinchFormula ==
    ob.status = "returned" =>
        \A i \in 1..Len(ob.center) :
            HasTangent(ob.center, i) =>
                /\ Abs(Sqrt(Dist2(ob.center[i], ob.inner[i]))
                         - ClampedOffset(TurnAngle(ob.center, i), ob.width)) <= 3
                /\ Abs(Sqrt(Dist2(ob.center[i], ob.outer[i]))
                         - ClampedOffset(TurnAngle(ob.center, i), ob.width)) <= 3

----------------------------------------------------------------------------
(* Properties of Car *)

\* beyond the outer bound of the track
Outside(c) == CentreDist(c.x, c.y) > 32000

\* on the asphalt band
OnAsphalt(c) == PointInTrack(c.x, c.y, track)

AtRest(c) == c.velocity_x = 0 /\ c.velocity_y = 0

\* no update moves the car or changes its fields
Stuck(c) == \A dt \in DtSet : CarUpdate(c, dt, track) = c

\* C8: at the end of every update the speed is at most max_speed (one
\* centi-pixel per second allowed for rounding).
C8_SpeedCapped ==
    op = "update" => Speed(car) <= car.max_speed + 1

\* C9: a car beyond the outer boundary comes back within a bounded number
\* of updates and is never farther out than the step before: no update
\* takes a car that is outside farther from the centre, and no car is
\* outside in a state that every update leaves as it is.
C9_ReturnsInside ==
    /\ (op = "update" /\ Outside(prev))
          => CentreDist(car.x, car.y) <= CentreDist(prev.x, prev.y)
    /\ ~(Outside(car) /\ Stuck(car))

\* C10: an update of a car at rest on asphalt with throttle 0 and
\* steering 0 leaves vx = vy = 0 and x, y and angle as they were, whatever
\* the frame time; the car it leaves is again at rest on asphalt.
C10_StaysAtRest ==
    (op = "update" /\ OnAsphalt(prev) /\ AtRest(prev)
                   /\ prev.throttle = 0 /\ prev.steering = 0)
        => /\ AtRest(car)
           /\ car.x = prev.x /\ car.y = prev.y /\ car.angle = prev.angle
           /\ car.throttle = 0 /\ car.steering = 0

\* a car constructed on asphalt, never given an input, updated as often as
\* the runs go, and still where it was constructed
C10_Witness ==
    /\ op = "update" /\ nUpdates = MaxUpdates /\ nInputs = 0
    /\ OnAsphalt(prev) /\ AtRest(prev)
    /\ car.x = spawn[1] /\ car.y = spawn[2]

\* C11: throttle and steering of a car lie in [-1, 1] in every state:
\* set_input stores the clamped values, reset stores 0, and update, its
\* collision response included, leaves throttle, steering and handbrake
\* as they were.
C11_InputsClamped ==
    /\ car.throttle \in -1000..1000
    /\ car.steering \in -1000..1000
    /\ op = "reset" => car.throttle = 0 /\ car.steering = 0
    /\ op = "update" => /\ car.throttle = prev.throttle
                        /\ car.steering = prev.steering
                        /\ car.handbrake = prev.handbrake

\* an update, with a collision response, of a car whose inputs were both
\* set out of range and clamped
C11_Witness ==
    /\ op = "update" /\ car.throttle = 1000 /\ car.steering = 1000
    /\ car.handbrake /\ ~car.on_track /\ ~AtRest(car)

\* C12: reset(x, y, angle), in whatever state the car was, leaves the pose
\* (x, y, angle), zero velocity, zero throttle and steering and the
\* handbrake off, and an update that follows directly leaves the car at
\* rest where reset put it.
C12_ResetRests ==
    op = "reset" =>
        /\ car.x = spawn[1] /\ car.y = spawn[2] /\ car.angle = spawn[3]
        /\ AtRest(car)
        /\ car.throttle = 0 /\ car.steering = 0 /\ ~car.handbrake
        /\ \A dt \in DtSet :
              /\ AtRest(CarUpdate(car, dt, track))
              /\ CarUpdate(car, dt, track).x = car.x
              /\ CarUpdate(car, dt, track).y = car.y

\* a reset of a moving car under throttle, steering and handbrake
C12_Witness ==
    /\ op = "reset" /\ ~AtRest(prev)
    /\ prev.throttle # 0 /\ prev.steering # 0 /\ prev.handbrake
    /\ <<car.x, car.y>> # <<prev.x, prev.y>>

\* a boundary list of the track data, a missing list read as empty
BoundaryList(t, k) == IF k \in DOMAIN t THEN t[k] ELSE <<>>

\* the track data lacks a boundary list
BoundariesMissing(t) ==
    "outer_boundary" \notin DOMAIN t \/ "inner_boundary" \notin DOMAIN t

\* C13: update ends without an exception whatever the track data it is
\* given, lists missing or empty included, and leaves a car whose position,
\* velocity and surface flag are defined.
C13_UpdateNeverFails ==
    op = "update" =>
        /\ raised = "none"
        /\ car.x \in Int /\ car.y \in Int /\ car.angle \in Int
        /\ car.velocity_x \in Int /\ car.velocity_y \in Int
        /\ car.on_track \in BOOLEAN

\* an update of a moving car on track data lacking both boundary lists
C13_Witness ==
    /\ op = "update" /\ ~AtRest(car)
    /\ "outer_boundary" \notin DOMAIN track
    /\ "inner_boundary" \notin DOMAIN track

\* C14: on track data without its boundaries update leaves the car on
\* asphalt wherever it is, so that the wall response, which corrects the
\* position and reflects the velocity only of a car off the track, is
\* never applied.
C14_MissingBoundariesOpen ==
    (op = "update" /\ BoundariesMissing(track)) => car.on_track

\* C15: no step, whichever car is updated, changes the track data the cars
\* share, its boundary lists and checkpoints included; an update of one
\* car changes no field of the other.
C15_TrackOnlyRead ==
    [][/\ track' = track
       /\ op' = "update" => rival' = rival
       /\ op' = "rival_update" => car' = car]_vars

\* both cars moving after updates of each on the shared track
C15_Witness ==
    /\ op = "rival_update" /\ nUpdates > 0
    /\ ~AtRest(car) /\ ~AtRest(rival)

\* C16: an update of at most 1/15 s of a car at full throttle that was not
\* outside the outer boundary does not leave it outside the outer boundary.
C16_NoTunneling ==
    (op = "update" /\ track = RingTrack /\ prev.throttle = 1000
                   /\ PointInPolygon(<<prev.x, prev.y>>, track.outer_boundary))
        => PointInPolygon(<<car.x, car.y>>, track.outer_boundary)

\* C20: the surface update leaves is the one the polygons of the track
\* data give: on asphalt exactly when the position is inside the outer
\* boundary and not inside the inner boundary, a missing or empty list
\* containing no point.
C20_SurfaceByPolygons ==
    op = "update" =>
        car.on_track =
            (/\ PointInPolygon(<<car.x, car.y>>,
                               BoundaryList(track, "outer_boundary"))
             /\ ~PointInPolygon(<<car.x, car.y>>,
                                BoundaryList(track, "inner_boundary")))


\* C21: a car moving forward whose brake is held on every frame reaches the
\* backward state, a speed against its heading above the dead-band of
\* 1 px/s, after finitely many updates.  The cars head along the x axis,
\* toward greater x (angle 0) or smaller x (angle 3142).
C21_BrakeThenReverse ==
    (op = "drive" /\ (\/ car.angle = 0 /\ car.velocity_x > 100
                      \/ car.angle = 3142 /\ car.velocity_x < -100))
    ~> (\/ car.angle = 0 /\ car.velocity_x < -100
        \/ car.angle = 3142 /\ car.velocity_x > 100)


----------------------------------------------------------------------------
(* Properties of RacingEnv and HumanRewardRecorder *)

\* C30: on a generated track _dist_to_checkpoint returns the distance from
\* the car to the position of the checkpoint aimed at, and a step advances
\* next_checkpoint_idx only with the car within 40 of that checkpoint
C30_DistanceToCheckpoint ==
    env.status = "ready" =>
        /\ env.prev_distance_to_checkpoint
              = TrueDistToCheckpoint(env, env.next_checkpoint_idx)
        /\ out.status = "step" => ~out.far


\* C29: a step reports truncated exactly when the simulated time, one
\* thirtieth of a second for each update of the car, has reached
\* max_episode_seconds
C29_TruncatedAtSimulatedTime ==
    out.status = "step" =>
        (out.truncated <=> out.updates >= env.max_episode_steps)

\* C22: over the same updates of the car the recorder aims at the same
\* checkpoint as the environment and adds the same reward
C22_RecorderDuplicatesEnv ==
    out.status = "step" =>
        /\ rec.next_checkpoint_idx = env.next_checkpoint_idx
        /\ out.rec_reward = out.reward


----------------------------------------------------------------------------
(* Properties of the sessions of Game *)

\* C23: an arcade session is first to 3: neither counter exceeds 3, the
\* results are shown exactly when a counter has reached 3, and a session
\* started after a finished one begins at 0-0
C23_ArcadeFirstToThree ==
    game.status = "ready" =>
        /\ game.arcade.player_wins <= ARCADE_WINS_TARGET
        /\ game.arcade.ai_wins <= ARCADE_WINS_TARGET
        /\ game.state = "arcade_results" => ArcadeIsFinished(game.arcade)
        /\ game.state = "arcade_transition" => ~ArcadeIsFinished(game.arcade)
        /\ (game.state = "arcade_countdown" /\ game.settings.mode = "ARCADE"
               /\ game.stale)
              => game.arcade.player_wins = 0 /\ game.arcade.ai_wins = 0

\* C24: every race of a Grand Prix is built from a preset 0, 1 or 2 of its
\* cup, the results come after the third race, and no lookup of GP_CUPS
\* uses a race index outside 0..2
C24_GrandPrixThreeRaces ==
    game.status = "ready" =>
        /\ game.raised = "none"
        /\ game.lookup \in 0..(GP_RACES_PER_CUP - 1)
        /\ game.state = "gp_results"
              => game.grand_prix.race_index = GP_RACES_PER_CUP

\* C26: every finished race of a Grand Prix adds one win to one of the two
\* counters, so the wins add up to the races run, 3 at the results
C26_GrandPrixWinsAddUp ==
    game.status = "ready" =>
        /\ game.grand_prix.player_wins + game.grand_prix.ai_wins
              = game.grand_prix.race_index
        /\ game.state = "gp_results"
              => game.grand_prix.player_wins + game.grand_prix.ai_wins
                   = GP_RACES_PER_CUP

\* C27: a race that no car has left the grid of has no checkpoint flagged,
\* and no race is declared finished before a car became active
C27_RaceStartsUnflagged ==
    game.status = "ready" =>
        /\ (game.state \in {"race", "arcade_countdown"}
               /\ ~game.player_active /\ ~game.ai_active)
              => \A k \in 1..Len(game.track_data.checkpoints) :
                    /\ ~CpGet(game.track_data.checkpoints[k], "player_reached")
                    /\ ~CpGet(game.track_data.checkpoints[k], "ai_reached")
        /\ game.finish.winner # "none" => game.finish.active


----------------------------------------------------------------------------
(* Properties of the loop of main.py *)

----------------------------------------------------------------------------
(* Properties of the race frames of both programs *)

\* C25: a race is declared finished with a winner only with every
\* checkpoint flagged for the winner; within one race a flag turns true
\* only in a frame that leaves its car active and within CHECKPOINT_RADIUS
\* of the checkpoint, and no flag turns false
C25_FlagsAndFinish ==
    [][/\ (game.status = "ready" /\ game.state = "race"
            /\ game'.races = game.races)
          => /\ FinishEarned(game'.finish)
             /\ FlagsFollow(game.track_data.checkpoints,
                             game'.track_data.checkpoints,
                             game'.player_active, game'.player_car,
                             game'.ai_active, game'.ai_car)
       /\ (main.status = "ready" /\ main.GAME_STATE = "race"
            /\ main'.race_no = main.race_no)
          => /\ FinishEarned(main'.finish)
             /\ FlagsFollow(main.track_data.checkpoints,
                             main'.track_data.checkpoints,
                             main'.player_active, main'.player_car,
                             main'.ai_active, main'.ai_car)]_vars

\* a race of main.py won by the player, who had left the grid
C25_Witness ==
    /\ main.status = "ready"
    /\ main.race_finished /\ main.race_winner = "PLAYER"
    /\ main.finish.winner = "PLAYER" /\ main.finish.active
    /\ AllReached(main.track_data.checkpoints, "player_reached")

====
